---- MODULE Spec2Model ----
(***************************************************************************)
(* A model of FENDL_vis: the MF/MT code tables and the section-description *)
(* resolvers (loader.py, viewer.py, gui.py, plotter.py), the loader        *)
(* (EndfLoader.list_files, load_file, get_evaluation_info), the viewer's   *)
(* cross-section sample, and the window of gui.py: the plottable-data      *)
(* selector, the text formatter, the file and section selectors, and the   *)
(* plot handler with the display routines and pyplot figures it uses,      *)
(* both as one step and in the steps between its calls of root.update().   *)
(***************************************************************************)
EXTENDS Integers, Sequences, FiniteSets, TLC

VARIABLES
    arg,                    \* the argument(s) of the function under study
    ret,                    \* the last call made on arg and what it returned
    disk,                   \* file name -> what EndfLoader.load_file finds there
    endf_files,             \* EndfGui.endf_files, the listed files
    material,               \* EndfGui.material
    mf_combo,               \* EndfGui.mf_combo: its values and the text it shows
    mt_combo,               \* EndfGui.mt_combo: its values and the text it shows
    compare_var,            \* EndfGui.compare_var
    plot_button,            \* the state of EndfGui.plot_button
    container,              \* what EndfGui.display_container holds
    current_display_type,   \* EndfGui.current_display_type
    status_var,             \* EndfGui.status_var
    dialogs,                \* the messagebox.showerror texts of the last handler
    calls,                  \* the routines the last event entered, its handler first
    figures,                \* whether EndfGui.fig is open, and how many pyplot figures are
    frames                  \* the handlers started and not yet returned, innermost last

fun == <<arg, ret>>
gui == <<disk, endf_files, material, mf_combo, mt_combo, compare_var, plot_button,
         container, current_display_type, status_var, dialogs, calls, figures, frames>>
vars == <<arg, ret, disk, endf_files, material, mf_combo, mt_combo, compare_var,
          plot_button, container, current_display_type, status_var, dialogs, calls,
          figures, frames>>

\* ret before any call has been made
NotCalled == [fn |-> "none"]

\* Python's None, and None where a label string is expected
PyNone == [kind |-> "None"]
NoLabel == "<None>"

\* no EndfGui has been constructed
NoGui ==
    /\ disk = PyNone /\ endf_files = PyNone /\ material = PyNone
    /\ mf_combo = PyNone /\ mt_combo = PyNone /\ compare_var = PyNone
    /\ plot_button = PyNone /\ container = PyNone /\ current_display_type = PyNone
    /\ status_var = PyNone /\ dialogs = PyNone /\ calls = PyNone
    /\ figures = PyNone /\ frames = PyNone

\* dict.get(key, default)
DictGet(d, key, default) == IF key \in DOMAIN d THEN d[key] ELSE default

(***************************************************************************)
(* Code tables.  Every class carries its own literal copy of the tables.   *)
(***************************************************************************)

\* loader.py, EndfLoader._get_mf_description: the dict literal
EndfLoader_mf_descriptions ==
    (1 :> "General Information") @@
    (2 :> "Resonance Parameters") @@
    (3 :> "Cross Sections") @@
    (4 :> "Angular Distributions") @@
    (5 :> "Energy Distributions") @@
    (6 :> "Energy-Angle Distributions") @@
    (7 :> "Thermal Scattering Data") @@
    (8 :> "Radioactivity and Fission-Product Yields") @@
    (9 :> "Multiplicities") @@
    (10 :> "Cross Sections for Production of Radioactive Nuclides") @@
    (12 :> "Multiplicities and Transition Probability Arrays") @@
    (13 :> "Photon Production Cross Sections") @@
    (14 :> "Photon Angular Distributions") @@
    (15 :> "Continuous Photon Energy Spectra") @@
    (23 :> "Smooth Photon Interaction Cross Sections") @@
    (27 :> "Atomic Form Factors")

\* loader.py, EndfLoader._get_mt_description: the dict literal
EndfLoader_mt_descriptions ==
    (1 :> "Total cross section") @@
    (2 :> "Elastic scattering") @@
    (3 :> "Nonelastic cross section") @@
    (4 :> "Inelastic cross section") @@
    (5 :> "Sum of all reactions not given explicitly") @@
    (16 :> "(n,2n)") @@
    (17 :> "(n,3n)") @@
    (18 :> "Fission") @@
    (51 :> "Inelastic scattering to 1st excited state") @@
    (102 :> "Radiative capture (n,gamma)") @@
    (103 :> "(n,p)") @@
    (104 :> "(n,d)") @@
    (105 :> "(n,t)") @@
    (451 :> "File information and dictionary")

\* a mutant of EndfLoader_get_mf_description: subscripting instead of .get()
EndfLoader_get_mf_description_subscript(mf) ==
    IF mf \in DOMAIN EndfLoader_mf_descriptions
    THEN EndfLoader_mf_descriptions[mf]
    ELSE "KeyError"

\* return mf_descriptions.get(mf, f"File {mf}")
EndfLoader_get_mf_description(mf) ==
    DictGet(EndfLoader_mf_descriptions, mf, "File " \o ToString(mf))

\* return mt_descriptions.get(mt, f"MT={mt}")
EndfLoader_get_mt_description(mt) ==
    DictGet(EndfLoader_mt_descriptions, mt, "MT=" \o ToString(mt))

\* a mutant of EndfLoader_get_section_description: the special case tested
\* with "or" instead of "and"
EndfLoader_get_section_description_or(mf, mt) ==
    IF mf = 1 \/ mt = 451
    THEN "General information"
    ELSE EndfLoader_get_mf_description(mf) \o " - " \o EndfLoader_get_mt_description(mt)

\* a mutant of EndfLoader_get_section_description: no special case
EndfLoader_get_section_description_generic(mf, mt) ==
    EndfLoader_get_mf_description(mf) \o " - " \o EndfLoader_get_mt_description(mt)

\* loader.py, EndfLoader._get_section_description
EndfLoader_get_section_description(mf, mt) ==
    IF mf = 1 /\ mt = 451
    THEN "General information"
    ELSE LET mf_desc == EndfLoader_get_mf_description(mf)
             mt_desc == EndfLoader_get_mt_description(mt)
         IN  mf_desc \o " - " \o mt_desc

\* viewer.py, EndfViewer._get_mf_description: the dict literal
EndfViewer_mf_descriptions ==
    (1 :> "General Information") @@
    (2 :> "Resonance Parameters") @@
    (3 :> "Cross Sections") @@
    (4 :> "Angular Distributions") @@
    (5 :> "Energy Distributions") @@
    (6 :> "Energy-Angle Distributions") @@
    (7 :> "Thermal Scattering Data") @@
    (8 :> "Radioactivity and Fission-Product Yields") @@
    (9 :> "Multiplicities") @@
    (10 :> "Cross Sections for Production of Radioactive Nuclides") @@
    (12 :> "Multiplicities and Transition Probability Arrays") @@
    (13 :> "Photon Production Cross Sections") @@
    (14 :> "Photon Angular Distributions") @@
    (15 :> "Continuous Photon Energy Spectra") @@
    (23 :> "Smooth Photon Interaction Cross Sections") @@
    (27 :> "Atomic Form Factors")

\* viewer.py, EndfViewer._get_mt_description: the dict literal
EndfViewer_mt_descriptions ==
    (1 :> "Total cross section") @@
    (2 :> "Elastic scattering") @@
    (3 :> "Nonelastic cross section") @@
    (4 :> "Inelastic cross section") @@
    (5 :> "Sum of all reactions not given explicitly") @@
    (16 :> "(n,2n)") @@
    (17 :> "(n,3n)") @@
    (18 :> "Fission") @@
    (51 :> "Inelastic scattering to 1st excited state") @@
    (102 :> "Radiative capture (n,gamma)") @@
    (103 :> "(n,p)") @@
    (104 :> "(n,d)") @@
    (105 :> "(n,t)") @@
    (451 :> "File information and dictionary")

\* return mf_descriptions.get(mf, f"File {mf}")
EndfViewer_get_mf_description(mf) ==
    DictGet(EndfViewer_mf_descriptions, mf, "File " \o ToString(mf))

\* return mt_descriptions.get(mt, f"MT={mt}")
EndfViewer_get_mt_description(mt) ==
    DictGet(EndfViewer_mt_descriptions, mt, "MT=" \o ToString(mt))

\* viewer.py, EndfViewer._get_section_description
EndfViewer_get_section_description(mf, mt) ==
    IF mf = 1 /\ mt = 451
    THEN "General information and section directory"
    ELSE LET mf_desc == EndfViewer_get_mf_description(mf)
             mt_desc == EndfViewer_get_mt_description(mt)
         IN  mf_desc \o " - " \o mt_desc

\* gui.py, EndfGui._get_mf_description: the dict literal
EndfGui_mf_descriptions ==
    (1 :> "General Information") @@
    (2 :> "Resonance Parameters") @@
    (3 :> "Cross Sections") @@
    (4 :> "Angular Distributions") @@
    (5 :> "Energy Distributions") @@
    (6 :> "Energy-Angle Distributions") @@
    (7 :> "Thermal Scattering Data") @@
    (8 :> "Radioactivity and Fission-Product Yields") @@
    (9 :> "Multiplicities") @@
    (10 :> "Cross Sections for Production of Radioactive Nuclides") @@
    (12 :> "Multiplicities and Transition Probability Arrays") @@
    (13 :> "Photon Production Cross Sections") @@
    (14 :> "Photon Angular Distributions") @@
    (15 :> "Continuous Photon Energy Spectra") @@
    (23 :> "Smooth Photon Interaction Cross Sections") @@
    (27 :> "Atomic Form Factors")

\* gui.py, EndfGui._get_mt_description: the dict literal
EndfGui_mt_descriptions ==
    (1 :> "Total cross section") @@
    (2 :> "Elastic scattering") @@
    (3 :> "Nonelastic cross section") @@
    (4 :> "Inelastic cross section") @@
    (5 :> "Sum of all reactions not given explicitly") @@
    (16 :> "(n,2n)") @@
    (17 :> "(n,3n)") @@
    (18 :> "Fission") @@
    (51 :> "Inelastic scattering to 1st excited state") @@
    (102 :> "Radiative capture (n,gamma)") @@
    (103 :> "(n,p)") @@
    (104 :> "(n,d)") @@
    (105 :> "(n,t)") @@
    (451 :> "File information and dictionary")

\* return mf_descriptions.get(mf, f"File {mf}")
EndfGui_get_mf_description(mf) ==
    DictGet(EndfGui_mf_descriptions, mf, "File " \o ToString(mf))

\* return mt_descriptions.get(mt, f"MT={mt}")
EndfGui_get_mt_description(mt) ==
    DictGet(EndfGui_mt_descriptions, mt, "MT=" \o ToString(mt))

\* a mutant of EndfPlotter_mt_descriptions: a copy of the table that was not
\* given the entry for 451
EndfPlotter_mt_descriptions_without_451 ==
    [mt \in DOMAIN EndfLoader_mt_descriptions \ {451} |-> EndfLoader_mt_descriptions[mt]]

\* plotter.py, EndfPlotter._get_mt_description: the dict literal
EndfPlotter_mt_descriptions ==
    (1 :> "Total cross section") @@
    (2 :> "Elastic scattering") @@
    (3 :> "Nonelastic cross section") @@
    (4 :> "Inelastic cross section") @@
    (5 :> "Sum of all reactions not given explicitly") @@
    (16 :> "(n,2n)") @@
    (17 :> "(n,3n)") @@
    (18 :> "Fission") @@
    (51 :> "Inelastic scattering to 1st excited state") @@
    (102 :> "Radiative capture (n,gamma)") @@
    (103 :> "(n,p)") @@
    (104 :> "(n,d)") @@
    (105 :> "(n,t)") @@
    (451 :> "File information and dictionary")

\* return mt_descriptions.get(mt, f"MT={mt}")
EndfPlotter_get_mt_description(mt) ==
    DictGet(EndfPlotter_mt_descriptions, mt, "MT=" \o ToString(mt))

(***************************************************************************)
(* Section contents.  A section is a Python dict, modelled as the sequence *)
(* of its <<key, value>> items in iteration (insertion) order with         *)
(* pairwise distinct keys.  A value is a scalar, an array of numbers (list *)
(* or numpy.ndarray) or a tabulated pair (an object with attributes x and  *)
(* y, each an array).                                                      *)
(***************************************************************************)

\* the longest array tried and the largest number of fields of a section
MaxLen == 1
MaxFields == 2

\* the names the selector looks for, and one it does not
FieldNames == {"E", "energy", "x", "sigma", "data", "y", "QM"}

ArrayOfLen(n) == [kind |-> "array", data |-> [i \in 1 .. n |-> i]]
Scalars == {[kind |-> "scalar"]}
Arrays == {ArrayOfLen(n) : n \in 0 .. MaxLen}
TabPairs == {[kind |-> "tab", x |-> a, y |-> b] : a \in Arrays, b \in Arrays}
Values == Scalars \cup Arrays \cup TabPairs

DistinctKeys(s) == \A i, j \in 1 .. Len(s) : s[i][1] = s[j][1] => i = j

\* s is a section of n fields, named from names and valued from values
IsSectionOver(s, n, names, values) ==
    /\ s \in [1 .. n -> names \X values]
    /\ DistinctKeys(s)

\* key in section_data
KeysOf(section_data) == {section_data[i][1] : i \in 1 .. Len(section_data)}

\* section_data[key]
Item(section_data, key) ==
    section_data[CHOOSE i \in 1 .. Len(section_data) : section_data[i][1] = key][2]

\* len(value) of an array
PyLen(value) == Len(value.data)

\* hasattr(value, 'x') and hasattr(value, 'y')
HasXY(value) == value.kind = "tab"

\* isinstance(value, (list, np.ndarray))
IsArray(value) == value.kind = "array"

(***************************************************************************)
(* gui.py, EndfGui._find_plottable_data                                    *)
(***************************************************************************)

\* for x_key in ['E', 'energy', 'x'] / for y_key in ['sigma', 'data', 'y']
X_KEYS == <<"E", "energy", "x">>
Y_KEYS == <<"sigma", "data", "y">>

\* a mutant of FirstTabulated: the loop without its break, so the last match wins
RECURSIVE FirstTabulated_nobreak(_, _)
FirstTabulated_nobreak(section_data, i) ==
    IF i > Len(section_data) THEN 0
    ELSE LET later == FirstTabulated_nobreak(section_data, i + 1)
         IN  IF later > 0 THEN later
             ELSE IF HasXY(section_data[i][2]) THEN i ELSE 0

\* a mutant of FirstArrayKey: the loop without its break, so the last match wins
RECURSIVE FirstArrayKey_nobreak(_, _, _)
FirstArrayKey_nobreak(section_data, keys, j) ==
    IF j > Len(keys) THEN 0
    ELSE LET later == FirstArrayKey_nobreak(section_data, keys, j + 1)
         IN  IF later > 0 THEN later
             ELSE IF keys[j] \in KeysOf(section_data) /\ IsArray(Item(section_data, keys[j]))
                  THEN j ELSE 0

\* a mutant of XLabelOf: only 'E' recognised as an energy
XLabelOf_E_only(x_key) == IF x_key = "E" THEN "Energy (eV)" ELSE "X values"

\* for key in section_data: if hasattr(..., 'x') and hasattr(..., 'y'): ... break
\* the position of the item the loop breaks at, 0 when it runs to the end
RECURSIVE FirstTabulated(_, _)
FirstTabulated(section_data, i) ==
    IF i > Len(section_data) THEN 0
    ELSE IF HasXY(section_data[i][2]) THEN i
    ELSE FirstTabulated(section_data, i + 1)

\* for k in keys: if k in section_data and isinstance(section_data[k], ...): ... break
\* the position in keys the loop breaks at, 0 when it runs to the end
RECURSIVE FirstArrayKey(_, _, _)
FirstArrayKey(section_data, keys, j) ==
    IF j > Len(keys) THEN 0
    ELSE IF keys[j] \in KeysOf(section_data) /\ IsArray(Item(section_data, keys[j])) THEN j
    ELSE FirstArrayKey(section_data, keys, j + 1)

\* xlabel = 'Energy (eV)' if x_key in ['E', 'energy'] else 'X values'
XLabelOf(x_key) == IF x_key \in {"E", "energy"} THEN "Energy (eV)" ELSE "X values"

\* ylabel = 'Cross Section (barns)' if y_key == 'sigma' else 'Y values'
YLabelOf(y_key) == IF y_key = "sigma" THEN "Cross Section (barns)" ELSE "Y values"

\* a mutant of LengthsDiffer: the final length check dropped
LengthsDiffer_never(x_data, y_data) == FALSE

\* x_data is not None and y_data is not None and len(x_data) != len(y_data)
LengthsDiffer(x_data, y_data) ==
    x_data # PyNone /\ y_data # PyNone /\ PyLen(x_data) # PyLen(y_data)

EndfGui_find_plottable_data(section_data) ==
    LET \* Look for Tabulated1D objects first
        t == FirstTabulated(section_data, 1)
        x1 == IF t > 0 THEN section_data[t][2].x ELSE PyNone
        y1 == IF t > 0 THEN section_data[t][2].y ELSE PyNone
        xlabel1 == IF t > 0 THEN "X values" ELSE NoLabel
        ylabel1 == IF t > 0 THEN section_data[t][1] \o " values" ELSE NoLabel
        \* If no Tabulated1D found, look for common arrays
        step2 == x1 = PyNone
        jx == FirstArrayKey(section_data, X_KEYS, 1)
        jy == FirstArrayKey(section_data, Y_KEYS, 1)
        x2 == IF step2 /\ jx > 0 THEN Item(section_data, X_KEYS[jx]) ELSE x1
        xlabel2 == IF step2 /\ jx > 0 THEN XLabelOf(X_KEYS[jx]) ELSE xlabel1
        y2 == IF step2 /\ jy > 0 THEN Item(section_data, Y_KEYS[jy]) ELSE y1
        ylabel2 == IF step2 /\ jy > 0 THEN YLabelOf(Y_KEYS[jy]) ELSE ylabel1
        \* Make sure x and y data have the same length
        differ == LengthsDiffer(x2, y2)
    IN  [x_data |-> IF differ THEN PyNone ELSE x2,
         y_data |-> IF differ THEN PyNone ELSE y2,
         xlabel |-> xlabel2,
         ylabel |-> ylabel2]

(***************************************************************************)
(* Python helpers used by the GUI handlers.                                *)
(***************************************************************************)

\* sorted(S) for a finite set of integers
RECURSIVE SortedInts(_)
SortedInts(S) ==
    IF S = {} THEN <<>>
    ELSE LET m == CHOOSE a \in S : \A b \in S : a <= b
         IN  <<m>> \o SortedInts(S \ {m})

\* the field names of the model in the order Python's str comparison gives them
SortedNames == <<"AWR", "E", "QM", "data", "energy", "sigma", "x", "y">>

SortedKeys_descending(S) ==
    SelectSeq(<<"y", "x", "sigma", "energy", "data", "QM", "E", "AWR">>, LAMBDA k : k \in S)

\* sorted(S) for a set of field names
SortedKeys(S) == SelectSeq(SortedNames, LAMBDA k : k \in S)

\* s.split(':')[0]
SplitHead(s) ==
    LET colons == {i \in 1 .. Len(s) : SubSeq(s, i, i) = ":"}
    IN  IF colons = {} THEN s
        ELSE SubSeq(s, 1, (CHOOSE i \in colons : \A j \in colons : i <= j) - 1)

\* int(s) for a decimal numeral s
DecimalDigits == "0123456789"
DigitValue(c) == (CHOOSE d \in 1 .. 10 : SubSeq(DecimalDigits, d, d) = c) - 1

RECURSIVE PyIntDigits(_)
PyIntDigits(s) ==
    IF Len(s) = 0 THEN 0
    ELSE 10 * PyIntDigits(SubSeq(s, 1, Len(s) - 1)) + DigitValue(SubSeq(s, Len(s), Len(s)))

PyInt(s) ==
    IF SubSeq(s, 1, 1) = "-" THEN 0 - PyIntDigits(SubSeq(s, 2, Len(s))) ELSE PyIntDigits(s)

\* the characters of the names of the model, in code point order
CodePointOrder == ".0123456789ABCDEFGHIJKLMNOPQRSTUVWXYZ_abcdefghijklmnopqrstuvwxyz"
CodePointRank(c) ==
    CHOOSE r \in 1 .. Len(CodePointOrder) : SubSeq(CodePointOrder, r, r) = c

\* a < b for two str
RECURSIVE StrLess(_, _)
StrLess(a, b) ==
    IF Len(b) = 0 THEN FALSE
    ELSE IF Len(a) = 0 THEN TRUE
    ELSE IF SubSeq(a, 1, 1) # SubSeq(b, 1, 1)
    THEN CodePointRank(SubSeq(a, 1, 1)) < CodePointRank(SubSeq(b, 1, 1))
    ELSE StrLess(SubSeq(a, 2, Len(a)), SubSeq(b, 2, Len(b)))

(***************************************************************************)
(* loader.py, EndfLoader.load_file.  disk[file] is a parsed Material, a    *)
(* file the parser rejects, or a file that is gone.                        *)
(***************************************************************************)

Material(section_data) == [kind |-> "material", section_data |-> section_data]
UnparsableWith(msg) == [kind |-> "unparsable", msg |-> msg]
Unparsable == UnparsableWith("MF=1, MT=451 not found")
Missing == [kind |-> "missing"]

\* EndfGui.data_dir
DataDir == "data"

PathExists_always(file) == TRUE

\* file_path.exists()
PathExists(file) == disk[file].kind # "missing"

\* endf.Material(str(file_path)): the parsed material or the exception raised
EndfMaterial(file) ==
    IF disk[file].kind = "missing"
    THEN [exc |-> "FileNotFoundError",
          msg |-> "[Errno 2] No such file or directory: '" \o DataDir \o "/" \o file \o "'"]
    ELSE IF disk[file].kind = "unparsable"
    THEN [exc |-> "ValueError", msg |-> disk[file].msg]
    ELSE [exc |-> "none", val |-> disk[file]]

\* a mutant of EndfLoader_load_file: the exception swallowed, None returned
EndfLoader_load_file_or_None(file) ==
    IF PathExists(file) /\ EndfMaterial(file).exc = "none"
    THEN [exc |-> "none", val |-> EndfMaterial(file).val, parsed |-> TRUE]
    ELSE [exc |-> "none", val |-> PyNone, parsed |-> PathExists(file)]

\* EndfLoader.load_file; parsed tells whether the parser was invoked
EndfLoader_load_file(file) ==
    IF ~PathExists(file)
    THEN [exc |-> "FileNotFoundError",
          msg |-> "File '" \o DataDir \o "/" \o file \o "' not found.",
          parsed |-> FALSE]
    ELSE LET mat == EndfMaterial(file)
         IN  IF mat.exc # "none"
             THEN [exc |-> "Exception",
                   msg |-> "Error parsing ENDF file: " \o mat.msg,
                   parsed |-> TRUE]
             ELSE [exc |-> "none", val |-> mat.val, parsed |-> TRUE]

GlobMatches_any(name) == TRUE

\* the name matches the pattern "*.endf"
GlobMatches(name) == Len(name) >= 5 /\ SubSeq(name, Len(name) - 4, Len(name)) = ".endf"

\* sorted(S) for a finite set of str
RECURSIVE SortedStrs(_)
SortedStrs(S) ==
    IF S = {} THEN <<>>
    ELSE LET m == CHOOSE a \in S : \A b \in S \ {a} : StrLess(a, b)
         IN  <<m>> \o SortedStrs(S \ {m})

\* EndfLoader.list_files: the names of the paths returned
EndfLoader_list_files ==
    SortedStrs({name \in DOMAIN disk : PathExists(name) /\ GlobMatches(name)})

(***************************************************************************)
(* loader.py, EndfLoader.get_evaluation_info.  A material carries its      *)
(* attributes and what interpret() does.  info is the dict returned, its   *)
(* entry "sections" a list of dicts.                                       *)
(***************************************************************************)

EvalMaterial(section_data, attrs, interpret) ==
    [kind |-> "material", section_data |-> section_data, attrs |-> attrs,
     interpret |-> interpret]


\* (a, b) < (c, d) for two tuples of int
PairLess(p, q) == p[1] < q[1] \/ (p[1] = q[1] /\ p[2] < q[2])

RECURSIVE SortedPairs_by_mt(_)
SortedPairs_by_mt(S) ==
    IF S = {} THEN <<>>
    ELSE LET m == CHOOSE a \in S : \A b \in S : a[2] <= b[2]
         IN  <<m>> \o SortedPairs_by_mt(S \ {m})

\* sorted(S) for a finite set of (mf, mt)
RECURSIVE SortedPairs(_)
SortedPairs(S) ==
    IF S = {} THEN <<>>
    ELSE LET m == CHOOSE a \in S : \A b \in S \ {a} : PairLess(a, b)
         IN  <<m>> \o SortedPairs(S \ {m})

InterpretCatches_ValueError(exc) == exc = "ValueError"

\* get_high_level_data: except Exception
InterpretCatches(exc) == TRUE

\* EndfLoader.get_high_level_data
EndfLoader_get_high_level_data(mat) ==
    IF mat.interpret.exc = "none"
    THEN [exc |-> "none", val |-> mat.interpret.val]
    ELSE IF InterpretCatches(mat.interpret.exc)
    THEN [exc |-> "none", val |-> PyNone]
    ELSE [exc |-> mat.interpret.exc]

EVAL_ATTRS_no_MAT == <<"ZA", "AWR">>

\* the attributes and the header fields copied to info
EVAL_ATTRS == <<"MAT", "ZA", "AWR">>
HEADER_KEYS == <<"ZA", "AWR", "LREL", "LRP", "TEMP">>

\* the entries of dict d under the names of keys that it has
Copied(keys, d) ==
    [name \in {keys[i] : i \in 1 .. Len(keys)} \cap DOMAIN d |-> d[name]]

\* EndfLoader.get_evaluation_info
EndfLoader_get_evaluation_info(mat) ==
    LET basic == Copied(EVAL_ATTRS, mat.attrs)
        header == mat.section_data[<<1, 451>>]
        from_header ==
            IF <<1, 451>> \in DOMAIN mat.section_data
            THEN Copied(HEADER_KEYS, [k \in KeysOf(header) |-> Item(header, k)])
            ELSE <<>>
        keys == SortedPairs(DOMAIN mat.section_data)
        sections == [i \in 1 .. Len(keys) |->
                        [mf |-> keys[i][1], mt |-> keys[i][2],
                         description |->
                             EndfLoader_get_section_description(keys[i][1], keys[i][2])]]
        interpreted == EndfLoader_get_high_level_data(mat)
        high_level ==
            IF interpreted.val = PyNone THEN <<>>
            ELSE ("interpreted_type" :> interpreted.val.type)
                 @@ (IF "reactions" \in DOMAIN interpreted.val
                     THEN "reactions" :> interpreted.val.reactions
                     ELSE <<>>)
    IN  IF interpreted.exc # "none"
        THEN [exc |-> interpreted.exc]
        ELSE [exc |-> "none",
              val |-> high_level @@ from_header @@ basic @@ ("sections" :> sections)]

(***************************************************************************)
(* plotter.py                                                              *)
(***************************************************************************)

Figure(x_data, y_data, xlabel, ylabel, title) ==
    [kind |-> "xy", x_data |-> x_data, y_data |-> y_data,
     xlabel |-> xlabel, ylabel |-> ylabel, title |-> title]

Drawn(fig) == [exc |-> "none", fig |-> fig]
Raised(exc, msg) == [exc |-> exc, msg |-> msg]

\* numpy.atleast_1d(v).shape[0]: anything that is not an array counts as one point
PlotDim(v) == IF IsArray(v) THEN PyLen(v) ELSE 1

\* ax.loglog(x, y) / ax.plot(x, y), then canvas.draw(): matplotlib raises
\* ValueError when the first dimensions differ; two arrays of equal length
\* draw; a non-array against one point draws or raises, depending on what
\* the value is
Draws(x_data, y_data) ==
    IF PlotDim(x_data) # PlotDim(y_data) THEN {"ValueError"}
    ELSE IF IsArray(x_data) /\ IsArray(y_data) THEN {"none"}
    ELSE {"none", "ValueError", "TypeError"}

RenderXY(x_data, y_data, xlabel, ylabel, title) ==
    {IF e = "none" THEN Drawn(Figure(x_data, y_data, xlabel, ylabel, title))
     ELSE Raised(e, "<matplotlib>") : e \in Draws(x_data, y_data)}

\* EndfPlotter.plot_cross_section: the outcomes it can have
EndfPlotter_plot_cross_section(section_data, title) ==
    IF "sigma" \notin KeysOf(section_data)
    THEN {Raised("ValueError", "Section data must contain 'sigma' key")}
    ELSE LET sigma == Item(section_data, "sigma")
         IN  IF HasXY(sigma)
             THEN RenderXY(sigma.x, sigma.y, "Energy (eV)", "Cross Section (barns)", title)
             ELSE IF "E" \in KeysOf(section_data) /\ IsArray(sigma)
             THEN RenderXY(Item(section_data, "E"), sigma,
                           "Energy (eV)", "Cross Section (barns)", title)
             ELSE {Raised("ValueError", "Could not find plottable cross section data.")}

\* EndfPlotter.plot_general_data
EndfPlotter_plot_general_data(x_data, y_data, title, xlabel, ylabel) ==
    RenderXY(x_data, y_data, xlabel, ylabel, title)

\* EndfPlotter.plot_multiple_cross_sections: the sections it draws a line for
PlottedMts(mat, mt_list) ==
    SelectSeq(mt_list, LAMBDA mt :
        /\ <<3, mt>> \in DOMAIN mat.section_data
        /\ "sigma" \in KeysOf(mat.section_data[<<3, mt>>])
        /\ HasXY(Item(mat.section_data[<<3, mt>>], "sigma")))

EndfPlotter_plot_multiple_cross_sections(mat, mt_list, title) ==
    LET mts == PlottedMts(mat, mt_list)
        line(mt) == LET sigma == Item(mat.section_data[<<3, mt>>], "sigma")
                    IN  [x_data |-> sigma.x, y_data |-> sigma.y,
                         label |-> "MT=" \o ToString(mt) \o " ("
                                   \o EndfPlotter_get_mt_description(mt) \o ")"]
        lines == [i \in 1 .. Len(mts) |-> line(mts[i])]
    IN  IF \E i \in 1 .. Len(lines) : "none" \notin Draws(lines[i].x_data, lines[i].y_data)
        THEN Raised("ValueError", "<matplotlib>")
        ELSE Drawn([kind |-> "multi", mt_list |-> mt_list, lines |-> lines, title |-> title])

(***************************************************************************)
(* gui.py: the display area                                                *)
(***************************************************************************)

Canvas(fig) == [widget |-> "canvas", fig |-> fig]
TextWidget(title, body) == [widget |-> "text", title |-> title, body |-> body]
EmptyContainer == [widget |-> "none"]

\* the figure of EndfGui._init_display_area
WelcomeFigure == [kind |-> "welcome"]

\* plt.close(self.fig) in _clear_display_area and _reset_display_area: the
\* figure self.fig names is closed if it is still open
PltClose(f) == IF f.fig = "open" THEN [fig |-> "closed", open |-> f.open - 1] ELSE f

\* the outcomes a plotter routine reaches after its plt.subplots: the figure
\* returned, or an exception of matplotlib raised while drawing into it
CreatesFigure(o) == o.exc = "none" \/ o.msg = "<matplotlib>"

\* self.fig, self.ax = <a plotter routine with outcome o>: self.fig is
\* assigned only when the routine returns, so the figure of a routine that
\* raised after plt.subplots stays open with no name for it
FiguresAfterPlot(f, o) ==
    IF ~CreatesFigure(o) THEN f
    ELSE IF o.exc = "none" THEN [fig |-> "open", open |-> f.open + 1]
    ELSE [f EXCEPT !.open = @ + 1]

\* _reset_display_area, then a plotter routine with outcome o
FiguresAfterRender(f, o) == FiguresAfterPlot(PltClose(f), o)

\* widget.pack(...) of w into self.display_container: w is added to what the
\* container holds
Pack(held, w) == IF held.widget = "none" THEN w ELSE w @@ ("below" :> held)

(***************************************************************************)
(* gui.py, EndfGui._format_section_data.  A float is held as the decimal   *)
(* numeral (-1)^neg * m * 10^e it is written as; the numerals tried have    *)
(* no digit sequence that rounds on a tie.                                  *)
(***************************************************************************)

FloatOf(neg, m, e) ==
    [kind |-> "scalar", type |-> "float", neg |-> neg, m |-> m, e |-> e]
IntOf(val) == [kind |-> "scalar", type |-> "int", val |-> val]

\* a 1-d np.ndarray of floats
NdArrayOf(data) ==
    [kind |-> "array", data |-> data, shape |-> <<Len(data)>>, dtype |-> "float64"]

\* a value in neither of the first two buckets that is no tabulated pair
DictObject == [kind |-> "object", type |-> "dict"]

\* isinstance(value, float)
IsFloat(value) == "type" \in DOMAIN value /\ value.type = "float"

\* isinstance(value[i], float), the same for every element of an array
HasFloatElements(value) == "dtype" \in DOMAIN value

\* hasattr(value, 'shape')
HasShape(value) == "shape" \in DOMAIN value

RECURSIVE Pow10(_)
Pow10(n) == IF n <= 0 THEN 1 ELSE 10 * Pow10(n - 1)

NumDigits(m) == Len(ToString(m))

RECURSIVE Zeros(_)
Zeros(n) == IF n <= 0 THEN "" ELSE "0" \o Zeros(n - 1)

\* f"{n:0{width}d}"
ZeroPad(n, width) == Zeros(width - NumDigits(n)) \o ToString(n)

\* a / b rounded to the nearest integer
RoundDiv(a, b) == (2 * a + b) \div (2 * b)

\* the decimal exponent of a non-zero float
Order(v) == NumDigits(v.m) - 1 + v.e

\* abs(a) < abs(b)
AbsLess(a, b) ==
    IF a.m = 0 THEN b.m # 0
    ELSE IF b.m = 0 THEN FALSE
    ELSE IF Order(a) # Order(b) THEN Order(a) < Order(b)
    ELSE LET da == NumDigits(a.m)
             db == NumDigits(b.m)
             D == IF da > db THEN da ELSE db
         IN  a.m * Pow10(D - da) < b.m * Pow10(D - db)

\* f"{value:.6f}"
PyFormat_6f(v) ==
    LET shift == 0 - v.e
        whole == IF v.e >= 0 THEN v.m * Pow10(v.e) ELSE v.m \div Pow10(shift)
        rest == IF v.e >= 0 THEN 0 ELSE v.m % Pow10(shift)
        micro == IF v.e >= 0 THEN 0
                 ELSE IF shift <= 6 THEN rest * Pow10(6 - shift)
                 ELSE RoundDiv(rest, Pow10(shift - 6))
        carry == micro = Pow10(6)
    IN  (IF v.neg THEN "-" ELSE "")
        \o ToString(IF carry THEN whole + 1 ELSE whole)
        \o "." \o ZeroPad(IF carry THEN 0 ELSE micro, 6)

\* f"{value:.6e}"
PyFormat_6e(v) ==
    IF v.m = 0 THEN (IF v.neg THEN "-" ELSE "") \o "0.000000e+00"
    ELSE LET d == NumDigits(v.m)
             mant0 == IF d <= 7 THEN v.m * Pow10(7 - d) ELSE RoundDiv(v.m, Pow10(d - 7))
             carry == mant0 = Pow10(7)
             digits == ToString(IF carry THEN Pow10(6) ELSE mant0)
             ord == Order(v) + (IF carry THEN 1 ELSE 0)
         IN  (IF v.neg THEN "-" ELSE "")
             \o SubSeq(digits, 1, 1) \o "." \o SubSeq(digits, 2, 7)
             \o "e" \o (IF ord < 0 THEN "-" ELSE "+")
             \o ZeroPad(IF ord < 0 THEN 0 - ord ELSE ord, 2)

\* str(value) of a scalar that is not a float; a scalar of unknown content is a str
PyStr(value) == IF "val" \in DOMAIN value THEN ToString(value.val) ELSE "<str>"

\* the limits of the fixed-point range
SCI_BELOW == FloatOf(FALSE, 1, -3)
SCI_ABOVE == FloatOf(FALSE, 1, 3)

UsesScientific_inclusive(value) ==
    ~AbsLess(SCI_BELOW, value) \/ ~AbsLess(value, SCI_ABOVE)

\* abs(value) < 0.001 or abs(value) > 1000
UsesScientific(value) == AbsLess(value, SCI_BELOW) \/ AbsLess(SCI_ABOVE, value)

\* formatted_value of a scalar
FormatScalar(value) ==
    IF IsFloat(value)
    THEN IF UsesScientific(value) THEN PyFormat_6e(value) ELSE PyFormat_6f(value)
    ELSE PyStr(value)

\* size_info of an array
SizeInfo(value) ==
    IF HasShape(value) THEN "shape=(" \o ToString(value.shape[1]) \o ",)"
    ELSE "length=" \o ToString(PyLen(value))

SampleSize_all(n) == n

\* sample_size = min(5, len(value))
SampleSize(n) == IF n < 5 THEN n ELSE 5

\* the text of element i of an array
FormatElement(value, i) ==
    IF HasFloatElements(value) THEN PyFormat_6e(value.data[i]) ELSE ToString(value.data[i])

\* the elements 1 .. n of the sample, joined by ", "
RECURSIVE SampleElements(_, _)
SampleElements(value, n) ==
    IF n = 0 THEN ""
    ELSE IF n = 1 THEN FormatElement(value, 1)
    ELSE SampleElements(value, n - 1) \o ", " \o FormatElement(value, n)

\* the sample line of a non-empty array
SampleLine(value) ==
    LET sample_size == SampleSize(PyLen(value))
    IN  "    Sample: [" \o SampleElements(value, sample_size)
        \o (IF PyLen(value) > sample_size
            THEN ", ... (" \o ToString(PyLen(value) - sample_size) \o " more)"
            ELSE "")
        \o "]"

\* the lines of one array field
ArrayLines(key, value) ==
    <<"  " \o key \o ": " \o SizeInfo(value)>>
    \o (IF PyLen(value) > 0 THEN <<SampleLine(value)>> ELSE <<>>)

\* the line of one field of the third bucket
ObjectLine(key, value) ==
    "  " \o key \o ": "
    \o (IF HasXY(value)
        THEN "Tabulated data with " \o ToString(PyLen(value.x)) \o " points"
        ELSE value.type)

\* the lines of the array fields keys[1 .. n]
RECURSIVE AllArrayLines(_, _, _)
AllArrayLines(section_data, keys, n) ==
    IF n = 0 THEN <<>>
    ELSE AllArrayLines(section_data, keys, n - 1)
         \o ArrayLines(keys[n], Item(section_data, keys[n]))

\* the bucket a value goes to
InScalars(value) == value.kind = "scalar"
InArrays(value) == ~InScalars(value) /\ (IsArray(value) \/ HasShape(value))

\* EndfGui._format_section_data: the buckets, each sorted by key (an array
\* with its size, a tabulated pair with its number of points), and the lines
\* inserted into the text widget
EndfGui_format_section_data(section_data) ==
    IF Len(section_data) = 0
    THEN [nodata |-> TRUE, scalars |-> <<>>, arrays |-> <<>>, objects |-> <<>>,
          lines |-> <<"No data available">>]
    ELSE LET keys == KeysOf(section_data)
             scalars == SortedKeys({k \in keys : InScalars(Item(section_data, k))})
             arrays == SortedKeys({k \in keys : InArrays(Item(section_data, k))})
             objects == SortedKeys({k \in keys :
                            /\ ~InScalars(Item(section_data, k))
                            /\ ~InArrays(Item(section_data, k))})
         IN  [nodata |-> FALSE,
              scalars |-> scalars,
              arrays |-> [i \in 1 .. Len(arrays) |->
                             <<arrays[i], PyLen(Item(section_data, arrays[i]))>>],
              objects |-> [i \in 1 .. Len(objects) |->
                              <<objects[i],
                                IF HasXY(Item(section_data, objects[i]))
                                THEN PyLen(Item(section_data, objects[i]).x)
                                ELSE 0>>],
              lines |->
                  (IF scalars = <<>> THEN <<>>
                   ELSE <<"Scalar Values:">>
                        \o [i \in 1 .. Len(scalars) |->
                               "  " \o scalars[i] \o ": "
                               \o FormatScalar(Item(section_data, scalars[i]))])
                  \o (IF arrays = <<>> THEN <<>>
                      ELSE <<"", "Array Data:">>
                           \o AllArrayLines(section_data, arrays, Len(arrays)))
                  \o (IF objects = <<>> THEN <<>>
                      ELSE <<"", "Complex Objects:">>
                           \o [i \in 1 .. Len(objects) |->
                                  ObjectLine(objects[i], Item(section_data, objects[i]))])]

\* EndfGui._display_plot after _reset_display_area: the outcomes of the render
EndfGui_display_plot(section_data, title) ==
    IF "sigma" \in KeysOf(section_data)
    THEN EndfPlotter_plot_cross_section(section_data, title)
    ELSE LET found == EndfGui_find_plottable_data(section_data)
         IN  IF found.x_data # PyNone /\ found.y_data # PyNone
             THEN EndfPlotter_plot_general_data(found.x_data, found.y_data, title,
                                                found.xlabel, found.ylabel)
             ELSE {Raised("ValueError", "No plottable data found")}

\* EndfGui._display_text_data: what it leaves on the display
EndfGui_display_text_data(section_data, title, entered) ==
    [container |-> TextWidget(title, EndfGui_format_section_data(section_data)),
     current_display_type |-> "text",
     status_var |-> "Displaying text data for section",
     dialogs |-> <<>>,
     calls |-> entered \o <<"_display_text_data">>]

\* _plot_section: if selected_mf == 3 and 'sigma' in section_data
TakesCrossSectionBranch(selected_mf, section_data) ==
    selected_mf = 3 /\ "sigma" \in KeysOf(section_data)

\* a mutant of TakesTextBranch: the elif branch removed
TakesTextBranch_never(selected_mf) == FALSE

\* _plot_section: elif selected_mf == 1
TakesTextBranch(selected_mf) == selected_mf = 1

\* a mutant of CrossSectionBranchCatches: except ValueError
CrossSectionBranchCatches_ValueError(exc) == exc = "ValueError"

\* _plot_section, the cross-section branch: except Exception
CrossSectionBranchCatches(exc) == exc # "none"

\* a mutant of OtherBranchCatches: no except clause
OtherBranchCatches_nothing(exc) == FALSE

\* _plot_section, the last branch: except ValueError
OtherBranchCatches(exc) == exc = "ValueError"

\* _plot_section from "Clear previous plot or text" on, for the outcome o of
\* the render that _display_plot makes
EndfGui_plot_selected(selected_mf, selected_mt, section_data, title, o) ==
    LET shown == [container |-> Canvas(o.fig),
                  current_display_type |-> "plot",
                  status_var |-> status_var,
                  dialogs |-> <<>>,
                  calls |-> <<"_plot_section", "_clear_display_area", "_display_plot">>]
        failed == [container |-> EmptyContainer,
                   current_display_type |-> current_display_type,
                   status_var |-> "Error displaying section",
                   dialogs |-> <<"Error displaying section: " \o o.msg>>,
                   calls |-> <<"_plot_section", "_clear_display_area", "_display_plot">>]
    IN  IF TakesCrossSectionBranch(selected_mf, section_data)
        THEN IF o.exc = "none"
             THEN [shown EXCEPT !.status_var =
                      "Plotted cross section (MF=" \o ToString(selected_mf)
                      \o ", MT=" \o ToString(selected_mt) \o ")"]
             ELSE IF CrossSectionBranchCatches(o.exc)
             THEN EndfGui_display_text_data(section_data, title,
                                            <<"_plot_section", "_clear_display_area", "_display_plot">>)
             ELSE failed
        ELSE IF TakesTextBranch(selected_mf)
        THEN EndfGui_display_text_data(section_data, title,
                                       <<"_plot_section", "_clear_display_area">>)
        ELSE IF o.exc = "none"
             THEN shown
             ELSE IF OtherBranchCatches(o.exc)
             THEN EndfGui_display_text_data(section_data, title,
                                            <<"_plot_section", "_clear_display_area", "_display_plot">>)
             ELSE failed

\* _plot_section calls _display_plot in every branch but elif selected_mf == 1
EntersDisplayPlot(selected_mf, section_data) ==
    TakesCrossSectionBranch(selected_mf, section_data) \/ ~TakesTextBranch(selected_mf)

\* the most pyplot figures a session is let to keep open
MaxOpenFigures == 3

\* _plot_comparison: common_mt
COMMON_MT == <<1, 2, 102>>
OPTIONAL_MT == <<16, 18, 103, 104, 105>>

EndfGui_common_mt_any_mf(mat) ==
    <<1, 2, 102>> \o SelectSeq(<<16, 18, 103, 104, 105>>,
                               LAMBDA mt : \E k \in DOMAIN mat.section_data : k[2] = mt)

EndfGui_common_mt(mat) ==
    COMMON_MT \o SelectSeq(OPTIONAL_MT, LAMBDA mt : <<3, mt>> \in DOMAIN mat.section_data)

\* EndfGui._plot_comparison from "Create a new multi-plot" on, for the list
\* common_mt it has made
EndfGui_plot_multi(common_mt) ==
    LET o == EndfPlotter_plot_multiple_cross_sections(
                 material, common_mt, "Cross Section Comparison")
    IN  IF o.exc = "none"
        THEN [container |-> Canvas(o.fig),
              current_display_type |-> "plot",
              status_var |-> "Plotted comparison of common cross sections",
              dialogs |-> <<>>,
              calls |-> <<"_plot_section", "_plot_comparison">>]
        ELSE [container |-> EmptyContainer,
              current_display_type |-> current_display_type,
              status_var |-> "Error plotting comparison",
              dialogs |-> <<"Error plotting comparison: " \o o.msg>>,
              calls |-> <<"_plot_section", "_plot_comparison">>]

\* EndfGui._plot_comparison
EndfGui_plot_comparison == EndfGui_plot_multi(EndfGui_common_mt(material))

(***************************************************************************)
(* gui.py: the selectors                                                   *)
(***************************************************************************)

EmptyCombo == [values |-> <<>>, text |-> ""]

\* EndfGui._on_mf_select on the combos given: the MT combo it leaves
EndfGui_on_mf_select(mat, mfc, mtc) ==
    IF mat = PyNone \/ mfc.text = ""
    THEN [exc |-> "none", mt_combo |-> mtc]
    ELSE LET selected_mf == PyInt(SplitHead(mfc.text))
             mt_values == SortedInts({k[2] : k \in {q \in DOMAIN mat.section_data :
                                                       q[1] = selected_mf}})
             mt_labels == [i \in 1 .. Len(mt_values) |->
                              ToString(mt_values[i]) \o ": "
                              \o EndfGui_get_mt_description(mt_values[i])]
         IN  IF Len(mt_labels) = 0
             THEN [exc |-> "TclError", msg |-> "Index 0 out of range",
                   mt_combo |-> [values |-> mt_labels, text |-> mtc.text]]
             ELSE [exc |-> "none", mt_combo |-> [values |-> mt_labels, text |-> mt_labels[1]]]

\* EndfGui._update_section_combos: the combos it leaves
EndfGui_update_section_combos(mat, mfc, mtc) ==
    IF mat = PyNone
    THEN [exc |-> "none", mf_combo |-> mfc, mt_combo |-> mtc]
    ELSE LET mf_values == SortedInts({k[1] : k \in DOMAIN mat.section_data})
             mf_labels == [i \in 1 .. Len(mf_values) |->
                              ToString(mf_values[i]) \o ": "
                              \o EndfGui_get_mf_description(mf_values[i])]
         IN  IF Len(mf_labels) = 0
             THEN [exc |-> "TclError", msg |-> "Index 0 out of range",
                   mf_combo |-> [values |-> mf_labels, text |-> mfc.text],
                   mt_combo |-> mtc]
             ELSE LET shown == [values |-> mf_labels, text |-> mf_labels[1]]
                      r == EndfGui_on_mf_select(mat, shown, mtc)
                  IN  [exc |-> r.exc,
                       msg |-> IF r.exc = "none" THEN "" ELSE r.msg,
                       mf_combo |-> shown,
                       mt_combo |-> r.mt_combo]

(***************************************************************************)
(* gui.py: the handlers, one action each                                   *)
(***************************************************************************)

\* the user picks entry index of the file list: EndfGui._on_file_select
OnFileSelect(index) ==
    /\ index \in 1 .. Len(endf_files)
    /\ LET selected_file == endf_files[index]
           loaded == EndfLoader_load_file(selected_file)
           combos == EndfGui_update_section_combos(loaded.val, mf_combo, mt_combo)
       IN  IF loaded.exc # "none"
           THEN /\ dialogs' = <<"Error loading file: " \o loaded.msg>>
                /\ status_var' = "Error loading " \o selected_file
                /\ UNCHANGED <<material, mf_combo, mt_combo, plot_button>>
           ELSE /\ material' = loaded.val
                /\ mf_combo' = combos.mf_combo
                /\ mt_combo' = combos.mt_combo
                /\ IF combos.exc = "none"
                   THEN /\ status_var' = "Loaded " \o selected_file
                        /\ plot_button' = "normal"
                        /\ dialogs' = <<>>
                   ELSE /\ dialogs' = <<"Error loading file: " \o combos.msg>>
                        /\ status_var' = "Error loading " \o selected_file
                        /\ UNCHANGED plot_button
    /\ calls' = <<"_on_file_select">>
    /\ UNCHANGED <<fun, disk, endf_files, compare_var, container, current_display_type,
                   figures, frames>>

\* the user picks entry index of the MF combo: EndfGui._on_mf_select
OnMfSelect(index) ==
    /\ index \in 1 .. Len(mf_combo.values)
    /\ LET picked == [mf_combo EXCEPT !.text = mf_combo.values[index]]
       IN  /\ mf_combo' = picked
           /\ mt_combo' = EndfGui_on_mf_select(material, picked, mt_combo).mt_combo
    /\ dialogs' = <<>>
    /\ calls' = <<"_on_mf_select">>
    /\ UNCHANGED <<fun, disk, endf_files, material, compare_var, plot_button, container,
                   current_display_type, status_var, figures, frames>>

\* the user picks entry index of the MT combo (no handler is bound to it)
OnMtSelect(index) ==
    /\ index \in 1 .. Len(mt_combo.values)
    /\ mt_combo' = [mt_combo EXCEPT !.text = mt_combo.values[index]]
    /\ dialogs' = <<>>
    /\ calls' = <<>>
    /\ UNCHANGED <<fun, disk, endf_files, material, mf_combo, compare_var, plot_button,
                   container, current_display_type, status_var, figures, frames>>

\* the user ticks or unticks "Compare Common Cross Sections"
OnCompareToggle ==
    /\ compare_var' = ~compare_var
    /\ dialogs' = <<>>
    /\ calls' = <<>>
    /\ UNCHANGED <<fun, disk, endf_files, material, mf_combo, mt_combo, plot_button,
                   container, current_display_type, status_var, figures, frames>>

\* r is what a display routine leaves
Leaves(r) ==
    /\ container' = r.container
    /\ current_display_type' = r.current_display_type
    /\ status_var' = r.status_var
    /\ dialogs' = r.dialogs
    /\ calls' = r.calls

\* the user presses "Plot Selected Section": EndfGui._plot_section
OnPlotSection ==
    /\ plot_button = "normal"
    /\ figures.open < MaxOpenFigures
    /\ IF material = PyNone
       THEN /\ dialogs' = <<>>
            /\ calls' = <<"_plot_section">>
            /\ UNCHANGED <<container, current_display_type, status_var, figures>>
       ELSE IF compare_var
       THEN /\ Leaves(EndfGui_plot_comparison)
            /\ figures' = FiguresAfterRender(figures,
                              EndfPlotter_plot_multiple_cross_sections(
                                  material, EndfGui_common_mt(material), ""))
       ELSE LET selected_mf == PyInt(SplitHead(mf_combo.text))
                selected_mt == PyInt(SplitHead(mt_combo.text))
                section_data == material.section_data[<<selected_mf, selected_mt>>]
                title == "MF=" \o ToString(selected_mf) \o " ("
                         \o EndfGui_get_mf_description(selected_mf) \o "), MT="
                         \o ToString(selected_mt) \o " ("
                         \o EndfGui_get_mt_description(selected_mt) \o ")"
            IN  IF <<selected_mf, selected_mt>> \notin DOMAIN material.section_data
                THEN /\ dialogs' = <<"Section (MF=" \o ToString(selected_mf) \o ", MT="
                                     \o ToString(selected_mt) \o ") not found">>
                     /\ calls' = <<"_plot_section">>
                     /\ UNCHANGED <<container, current_display_type, status_var, figures>>
                ELSE \E o \in EndfGui_display_plot(section_data, title) :
                         /\ Leaves(EndfGui_plot_selected(selected_mf, selected_mt,
                                                         section_data, title, o))
                         /\ figures' = IF EntersDisplayPlot(selected_mf, section_data)
                                        THEN FiguresAfterRender(figures, o)
                                        ELSE PltClose(figures)
    /\ UNCHANGED <<fun, disk, endf_files, material, mf_combo, mt_combo, compare_var,
                   plot_button, frames>>

(***************************************************************************)
(* SpecPlot: a session on a data directory with two files, each handler    *)
(* one step.                                                               *)
(***************************************************************************)

\* the names of the fields of the sections the session plots
GuiNames == {"E", "sigma"}

\* the section keys of the materials the session loads
SectionKeys == {<<1, 451>>, <<1, 452>>, <<3, 102>>, <<23, 501>>}

\* a header section to go with another section
HeaderSection == << <<"AWR", [kind |-> "scalar"]>> >>

FileNames == <<"a.endf", "b.endf">>

\* a file that parses to a material without sections
EmptyMaterial == Material(<<>>)

\* the section keys of the materials compared, each section a tabulated sigma
CompareKeys == {<<3, 2>>, <<3, 16>>, <<3, 18>>, <<6, 103>>}
SigmaSection == << <<"sigma", [kind |-> "tab", x |-> ArrayOfLen(1), y |-> ArrayOfLen(1)]>> >>

\* the state EndfGui.__init__ leaves
GuiConstructed ==
    /\ endf_files = FileNames
    /\ material = PyNone
    /\ mf_combo = EmptyCombo
    /\ mt_combo = EmptyCombo
    /\ compare_var = FALSE
    /\ plot_button = "disabled"
    /\ container = Canvas(WelcomeFigure)
    /\ current_display_type = "plot"
    /\ status_var = "Found " \o ToString(Len(FileNames)) \o " ENDF files in " \o DataDir
    /\ dialogs = <<>>
    /\ calls = <<"__init__">>
    /\ figures = [fig |-> "open", open |-> 1]
    /\ frames = <<>>

\* a.endf is unparsable, gone, a material of one section (with or without a
\* header section) or a material to compare; b.endf has no sections
InitPlot ==
    /\ arg = PyNone
    /\ ret = NotCalled
    /\ \E first \in {Unparsable, Missing}
                    \cup {Material([k \in keys |-> SigmaSection]) :
                              keys \in (SUBSET CompareKeys) \ {{}}} :
           disk = (FileNames[1] :> first) @@ (FileNames[2] :> EmptyMaterial)
       \/ \E k \in SectionKeys, n \in 0 .. MaxFields :
              \E s \in [1 .. n -> GuiNames \X Values] :
                  /\ DistinctKeys(s)
                  /\ \/ disk = (FileNames[1] :> Material(k :> s))
                               @@ (FileNames[2] :> EmptyMaterial)
                     \/ /\ k # <<1, 451>>
                        /\ disk = (FileNames[1] :>
                                      Material((<<1, 451>> :> HeaderSection) @@ (k :> s)))
                                  @@ (FileNames[2] :> EmptyMaterial)
    /\ GuiConstructed

NextPlot ==
    \/ \E index \in 1 .. Len(FileNames) : OnFileSelect(index)
    \/ \E index \in 1 .. Cardinality(SectionKeys) : OnMfSelect(index)
    \/ \E index \in 1 .. Cardinality(SectionKeys) : OnMtSelect(index)
    \/ OnCompareToggle
    \/ OnPlotSection

SpecPlot == InitPlot /\ [][NextPlot]_vars

(***************************************************************************)
(* SpecEvents: the same session with _plot_section in the steps between    *)
(* its calls of root.update().  root.update() (gui.py:309, 331) dispatches *)
(* the events that are waiting, so a handler may start there; it runs, and  *)
(* the suspended handler goes on when it has returned.  _on_file_select    *)
(* and _on_mf_select call no root.update() and are one step each           *)
(* (root.update_idletasks() at gui.py:199 dispatches no input event).      *)
(***************************************************************************)

\* the most handlers started and not yet returned
MaxDepth == 2

\* the innermost handler, and the stack when it returns or moves to pc
Top == frames[Len(frames)]
Returned == SubSeq(frames, 1, Len(frames) - 1)
MovedTo(pc, entered) == Returned \o <<[Top EXCEPT !.pc = pc, !.entered = entered]>>

\* Tk dispatches an event from the main loop or from a root.update()
Dispatches == Len(frames) < MaxDepth

\* the handlers with no root.update() in them start and return in one step
FileSelectEvent(index) == Dispatches /\ OnFileSelect(index)
MfSelectEvent(index) == Dispatches /\ OnMfSelect(index)
CompareToggleEvent == Dispatches /\ OnCompareToggle

\* _plot_section up to the root.update() of _clear_display_area, or of the
\* _reset_display_area of _plot_comparison
PlotStart ==
    /\ Dispatches
    /\ plot_button = "normal"
    /\ figures.open < MaxOpenFigures
    /\ material # PyNone
    /\ IF compare_var
       THEN /\ frames' = frames \o <<[handler |-> "_plot_section", pc |-> "reset_compare",
                                      entered |-> <<"_plot_section", "_plot_comparison">>,
                                      common_mt |-> EndfGui_common_mt(material)]>>
            /\ container' = EmptyContainer
            /\ figures' = PltClose(figures)
            /\ calls' = <<"_plot_section", "_plot_comparison">>
            /\ dialogs' = <<>>
            /\ UNCHANGED <<current_display_type, status_var>>
       ELSE LET selected_mf == PyInt(SplitHead(mf_combo.text))
                selected_mt == PyInt(SplitHead(mt_combo.text))
                title == "MF=" \o ToString(selected_mf) \o " ("
                         \o EndfGui_get_mf_description(selected_mf) \o "), MT="
                         \o ToString(selected_mt) \o " ("
                         \o EndfGui_get_mt_description(selected_mt) \o ")"
            IN  IF <<selected_mf, selected_mt>> \notin DOMAIN material.section_data
                THEN /\ dialogs' = <<"Section (MF=" \o ToString(selected_mf) \o ", MT="
                                     \o ToString(selected_mt) \o ") not found">>
                     /\ calls' = <<"_plot_section">>
                     /\ UNCHANGED <<container, current_display_type, status_var, figures,
                                    frames>>
                ELSE /\ frames' = frames \o
                            <<[handler |-> "_plot_section", pc |-> "cleared",
                               entered |-> <<"_plot_section", "_clear_display_area">>,
                               selected_mf |-> selected_mf, selected_mt |-> selected_mt,
                               section_data |-> material.section_data[<<selected_mf,
                                                                        selected_mt>>],
                               title |-> title]>>
                     /\ container' = EmptyContainer
                     /\ figures' = PltClose(figures)
                     /\ calls' = <<"_plot_section", "_clear_display_area">>
                     /\ dialogs' = <<>>
                     /\ UNCHANGED <<current_display_type, status_var>>
    /\ UNCHANGED <<fun, disk, endf_files, material, mf_combo, mt_combo, compare_var,
                   plot_button>>

\* from the root.update() of _clear_display_area to the one of the
\* _reset_display_area that _display_plot or _display_text_data calls
PlotAfterClear ==
    /\ frames # <<>>
    /\ Top.pc = "cleared"
    /\ IF EntersDisplayPlot(Top.selected_mf, Top.section_data)
       THEN frames' = MovedTo("reset_plot", Top.entered \o <<"_display_plot">>)
       ELSE frames' = MovedTo("reset_text", Top.entered)
    /\ container' = EmptyContainer
    /\ figures' = PltClose(figures)
    /\ calls' = Top.entered
    /\ UNCHANGED <<fun, disk, endf_files, material, mf_combo, mt_combo, compare_var,
                   plot_button, current_display_type, status_var, dialogs>>

\* _display_plot from the root.update() of its _reset_display_area: the
\* render, then the return of _plot_section or its fall back to text
PlotAfterReset ==
    /\ frames # <<>>
    /\ Top.pc = "reset_plot"
    /\ \E o \in EndfGui_display_plot(Top.section_data, Top.title) :
           LET r == EndfGui_plot_selected(Top.selected_mf, Top.selected_mt,
                                          Top.section_data, Top.title, o)
           IN  IF r.container.widget = "text"
               THEN /\ frames' = MovedTo("reset_text", Top.entered)
                    /\ container' = EmptyContainer
                    /\ figures' = PltClose(FiguresAfterPlot(figures, o))
                    /\ calls' = Top.entered
                    /\ UNCHANGED <<current_display_type, status_var, dialogs>>
               ELSE /\ frames' = Returned
                    /\ container' = IF o.exc = "none" THEN Pack(container, r.container)
                                    ELSE container
                    /\ figures' = FiguresAfterPlot(figures, o)
                    /\ current_display_type' = r.current_display_type
                    /\ status_var' = r.status_var
                    /\ dialogs' = r.dialogs
                    /\ calls' = r.calls
    /\ UNCHANGED <<fun, disk, endf_files, material, mf_combo, mt_combo, compare_var,
                   plot_button>>

\* _display_text_data from the root.update() of its _reset_display_area
PlotTextAfterReset ==
    /\ frames # <<>>
    /\ Top.pc = "reset_text"
    /\ LET r == EndfGui_display_text_data(Top.section_data, Top.title, Top.entered)
       IN  /\ container' = Pack(container, r.container)
           /\ current_display_type' = r.current_display_type
           /\ status_var' = r.status_var
           /\ dialogs' = r.dialogs
           /\ calls' = r.calls
    /\ frames' = Returned
    /\ UNCHANGED <<fun, disk, endf_files, material, mf_combo, mt_combo, compare_var,
                   plot_button, figures>>

\* _plot_comparison from the root.update() of its _reset_display_area
PlotComparisonAfterReset ==
    /\ frames # <<>>
    /\ Top.pc = "reset_compare"
    /\ LET o == EndfPlotter_plot_multiple_cross_sections(
                    material, Top.common_mt, "Cross Section Comparison")
           r == EndfGui_plot_multi(Top.common_mt)
       IN  /\ container' = IF o.exc = "none" THEN Pack(container, r.container)
                           ELSE container
           /\ figures' = FiguresAfterPlot(figures, o)
           /\ current_display_type' = r.current_display_type
           /\ status_var' = r.status_var
           /\ dialogs' = r.dialogs
           /\ calls' = r.calls
    /\ frames' = Returned
    /\ UNCHANGED <<fun, disk, endf_files, material, mf_combo, mt_combo, compare_var,
                   plot_button>>

\* a section whose 'E' and 'sigma' arrays differ in length
MismatchedSection == << <<"E", ArrayOfLen(1)>>, <<"sigma", ArrayOfLen(0)>> >>

\* a.endf has a header section and a cross section that draws or does not;
\* b.endf has another cross section, does not parse, or is gone
InitEvents ==
    /\ arg = PyNone
    /\ ret = NotCalled
    /\ \E s \in {SigmaSection, MismatchedSection},
          second \in {Material(<<3, 2>> :> SigmaSection), Unparsable, Missing} :
           disk = (FileNames[1] :> Material((<<1, 451>> :> HeaderSection)
                                            @@ (<<3, 102>> :> s)))
                  @@ (FileNames[2] :> second)
    /\ GuiConstructed

NextEvents ==
    \/ \E index \in 1 .. Len(FileNames) : FileSelectEvent(index)
    \/ \E index \in 1 .. 2 : MfSelectEvent(index)
    \/ CompareToggleEvent
    \/ PlotStart
    \/ PlotAfterClear
    \/ PlotAfterReset
    \/ PlotTextAfterReset
    \/ PlotComparisonAfterReset

SpecEvents == InitEvents /\ [][NextEvents]_vars

(***************************************************************************)
(* SpecDescribe: the lookups and the resolvers applied to integer codes.   *)
(***************************************************************************)

\* the largest MF and MT codes tried (the tables end at 27 and 451)
MaxMf == 29
MaxMt == 453

MfCodes == -1 .. MaxMf
MtCodes == -1 .. MaxMt

InitDescribe ==
    /\ arg \in [mf : MfCodes, mt : MtCodes]
    /\ ret = NotCalled
    /\ NoGui

CallLoaderSection ==
    /\ ret' = [fn |-> "EndfLoader._get_section_description",
               val |-> EndfLoader_get_section_description(arg.mf, arg.mt)]
    /\ UNCHANGED <<arg, gui>>

CallViewerSection ==
    /\ ret' = [fn |-> "EndfViewer._get_section_description",
               val |-> EndfViewer_get_section_description(arg.mf, arg.mt)]
    /\ UNCHANGED <<arg, gui>>

CallLoaderMf ==
    /\ ret' = [fn |-> "EndfLoader._get_mf_description",
               val |-> EndfLoader_get_mf_description(arg.mf)]
    /\ UNCHANGED <<arg, gui>>

CallLoaderMt ==
    /\ ret' = [fn |-> "EndfLoader._get_mt_description",
               val |-> EndfLoader_get_mt_description(arg.mt)]
    /\ UNCHANGED <<arg, gui>>

CallGuiMf ==
    /\ ret' = [fn |-> "EndfGui._get_mf_description",
               val |-> EndfGui_get_mf_description(arg.mf)]
    /\ UNCHANGED <<arg, gui>>

CallGuiMt ==
    /\ ret' = [fn |-> "EndfGui._get_mt_description",
               val |-> EndfGui_get_mt_description(arg.mt)]
    /\ UNCHANGED <<arg, gui>>

CallViewerMf ==
    /\ ret' = [fn |-> "EndfViewer._get_mf_description",
               val |-> EndfViewer_get_mf_description(arg.mf)]
    /\ UNCHANGED <<arg, gui>>

CallViewerMt ==
    /\ ret' = [fn |-> "EndfViewer._get_mt_description",
               val |-> EndfViewer_get_mt_description(arg.mt)]
    /\ UNCHANGED <<arg, gui>>

CallPlotterMt ==
    /\ ret' = [fn |-> "EndfPlotter._get_mt_description",
               val |-> EndfPlotter_get_mt_description(arg.mt)]
    /\ UNCHANGED <<arg, gui>>

NextDescribe ==
    \/ CallLoaderSection
    \/ CallViewerSection
    \/ CallLoaderMf
    \/ CallLoaderMt
    \/ CallGuiMf
    \/ CallGuiMt
    \/ CallViewerMf
    \/ CallViewerMt
    \/ CallPlotterMt

SpecDescribe == InitDescribe /\ [][NextDescribe]_vars

(***************************************************************************)
(* SpecSelect: the selector applied to a section.                          *)
(***************************************************************************)

InitSelect ==
    /\ \E n \in 0 .. MaxFields : IsSectionOver(arg, n, FieldNames, Values)
    /\ ret = NotCalled
    /\ NoGui

CallFindPlottableData ==
    /\ ret' = [fn |-> "EndfGui._find_plottable_data",
               val |-> EndfGui_find_plottable_data(arg)]
    /\ UNCHANGED <<arg, gui>>

NextSelect == CallFindPlottableData

SpecSelect == InitSelect /\ [][NextSelect]_vars

(***************************************************************************)
(* SpecFormat: _format_section_data applied to a section.                  *)
(***************************************************************************)

\* the longest list tried and the largest number of fields of a section dumped
MaxSample == 6
MaxFormatFields == 3

FormatNames == {"AWR", "E", "sigma"}

\* 0.0, 0.00005, 0.0009999, 0.001, 12.3456789, 1000.0, 1000.5, 5000.0 and
\* -0.001, -1000.0, -2500.0
Floats ==
    {FloatOf(FALSE, 0, 0), FloatOf(FALSE, 5, -5), FloatOf(FALSE, 9999, -7),
     FloatOf(FALSE, 1, -3), FloatOf(FALSE, 123456789, -7), FloatOf(FALSE, 1, 3),
     FloatOf(FALSE, 10005, -1), FloatOf(FALSE, 5, 3),
     FloatOf(TRUE, 1, -3), FloatOf(TRUE, 1, 3), FloatOf(TRUE, 25, 2)}

FormatValues ==
    Floats \cup Scalars \cup {IntOf(125)}
    \cup {ArrayOfLen(n) : n \in 0 .. MaxSample}
    \cup {NdArrayOf(<<FloatOf(FALSE, 5, -1), FloatOf(FALSE, 25, 2)>>)}
    \cup {[kind |-> "tab", x |-> ArrayOfLen(1), y |-> ArrayOfLen(1)], DictObject}

InitFormat ==
    /\ \E n \in 0 .. MaxFormatFields : IsSectionOver(arg, n, FormatNames, FormatValues)
    /\ ret = NotCalled
    /\ NoGui

CallFormatSectionData ==
    /\ ret' = [fn |-> "EndfGui._format_section_data",
               val |-> EndfGui_format_section_data(arg)]
    /\ UNCHANGED <<arg, gui>>

NextFormat == CallFormatSectionData

SpecFormat == InitFormat /\ [][NextFormat]_vars

(***************************************************************************)
(* SpecLoader: list_files and load_file on a data directory.               *)
(***************************************************************************)

\* the names a data directory can hold
DirNames == {"a.endf", "B.endf", "x.endf.bak", "notes.txt"}

\* what is under a name: nothing, a file the parser rejects, a file it parses
LoaderContents ==
    {Missing, Unparsable, UnparsableWith("Unexpected end of file"),
     Material(<<1, 451>> :> HeaderSection)}

InitLoader ==
    /\ disk \in [DirNames -> LoaderContents]
    /\ arg \in DirNames
    /\ ret = NotCalled
    /\ endf_files = PyNone /\ material = PyNone
    /\ mf_combo = PyNone /\ mt_combo = PyNone /\ compare_var = PyNone
    /\ plot_button = PyNone /\ container = PyNone /\ current_display_type = PyNone
    /\ status_var = PyNone /\ dialogs = PyNone /\ calls = PyNone
    /\ figures = PyNone /\ frames = PyNone

CallListFiles ==
    /\ ret' = [fn |-> "EndfLoader.list_files", val |-> EndfLoader_list_files]
    /\ UNCHANGED <<arg, gui>>

CallLoadFile ==
    /\ ret' = [fn |-> "EndfLoader.load_file"] @@ EndfLoader_load_file(arg)
    /\ UNCHANGED <<arg, gui>>

NextLoader == CallListFiles \/ CallLoadFile

SpecLoader == InitLoader /\ [][NextLoader]_vars

(***************************************************************************)
(* SpecEvaluate: get_evaluation_info applied to a material.                *)
(***************************************************************************)

\* the section keys of the materials summarised
EvalKeys == {<<1, 451>>, <<2, 151>>, <<3, 1>>, <<3, 102>>, <<10, 5>>}

\* the attributes a material can have: MAT = 125, ZA = 1001, AWR = 0.99917
AttrValue(name) ==
    IF name = "AWR" THEN FloatOf(FALSE, 99917, -5)
    ELSE IF name = "MAT" THEN IntOf(125)
    ELSE IntOf(1001)

\* the (1, 451) sections tried: AWR = 0.99917 or 1.5, MAT = 125, TEMP = 0.0
EvalHeaders ==
    {<<>>,
     << <<"AWR", FloatOf(FALSE, 99917, -5)>> >>,
     << <<"AWR", FloatOf(FALSE, 15, -1)>> >>,
     << <<"MAT", IntOf(125)>> >>,
     << <<"MAT", IntOf(125)>>, <<"AWR", FloatOf(FALSE, 99917, -5)>> >>,
     << <<"TEMP", FloatOf(FALSE, 0, 0)>>, <<"NLIB", IntOf(0)>> >>}

\* what material.interpret() does
Interpretations ==
    {[exc |-> "ValueError", msg |-> "unknown sublibrary"],
     [exc |-> "NotImplementedError", msg |-> ""],
     [exc |-> "none", val |-> [type |-> "IncidentNeutron",
                               reactions |-> <<[mt |-> 2, name |-> "(n,elastic)"]>>]],
     [exc |-> "none", val |-> [type |-> "Decay"]]}

InitEvaluate ==
    /\ \E keys \in SUBSET EvalKeys, names \in SUBSET {"MAT", "ZA", "AWR"},
          header \in EvalHeaders, interpret \in Interpretations :
           /\ <<1, 451>> \notin keys => header = <<>>
           /\ arg = EvalMaterial(
                        [k \in keys |-> IF k = <<1, 451>> THEN header ELSE <<>>],
                        [name \in names |-> AttrValue(name)],
                        interpret)
    /\ ret = NotCalled
    /\ NoGui

CallGetEvaluationInfo ==
    /\ ret' = [fn |-> "EndfLoader.get_evaluation_info"]
              @@ EndfLoader_get_evaluation_info(arg)
    /\ UNCHANGED <<arg, gui>>

NextEvaluate == CallGetEvaluationInfo

SpecEvaluate == InitEvaluate /\ [][NextEvaluate]_vars

(***************************************************************************)
(* Properties of the selector, checked under SpecSelect.                   *)
(***************************************************************************)

\* _find_plottable_data has been applied to the section arg
Selected == ret.fn = "EndfGui._find_plottable_data"

\* the positions of the tabulated pairs of section s
TabPositions(s) == {i \in 1 .. Len(s) : s[i][2].kind = "tab"}

\* the first item of s, in iteration order, that is a tabulated pair
LeadingTab(s) == s[CHOOSE i \in TabPositions(s) : \A j \in TabPositions(s) : i <= j]

\* s has a field named k that is an array
ArrayNamed(s, k) == \E i \in 1 .. Len(s) : s[i][1] = k /\ s[i][2].kind = "array"

\* the name of the independent (dependent) array among the named arrays, "" if none
NamedXKey(s) ==
    IF ArrayNamed(s, "E") THEN "E"
    ELSE IF ArrayNamed(s, "energy") THEN "energy"
    ELSE IF ArrayNamed(s, "x") THEN "x"
    ELSE ""

NamedYKey(s) ==
    IF ArrayNamed(s, "sigma") THEN "sigma"
    ELSE IF ArrayNamed(s, "data") THEN "data"
    ELSE IF ArrayNamed(s, "y") THEN "y"
    ELSE ""

ValueNamed(s, k) == IF k = "" THEN PyNone ELSE s[CHOOSE i \in 1 .. Len(s) : s[i][1] = k][2]

\* the arrays the two steps find, before the length check
FoundX(s) == IF TabPositions(s) # {} THEN LeadingTab(s)[2].x ELSE ValueNamed(s, NamedXKey(s))
FoundY(s) == IF TabPositions(s) # {} THEN LeadingTab(s)[2].y ELSE ValueNamed(s, NamedYKey(s))

\* C1: when the selector finds an independent and a dependent array of unequal
\* lengths, from a tabulated pair or from named arrays, it returns its four
\* values with both arrays None; so two arrays it returns have equal length.
C1_MismatchIsNotFound ==
    Selected =>
        /\ DOMAIN ret.val = {"x_data", "y_data", "xlabel", "ylabel"}
        /\ (FoundX(arg) # PyNone /\ FoundY(arg) # PyNone
              /\ Len(FoundX(arg).data) # Len(FoundY(arg).data))
           => (ret.val.x_data = PyNone /\ ret.val.y_data = PyNone)
        /\ (ret.val.x_data # PyNone /\ ret.val.y_data # PyNone)
           => Len(ret.val.x_data.data) = Len(ret.val.y_data.data)

\* C1 witness: named arrays E and sigma of unequal lengths, no tabulated pair,
\* and the selector has returned None for both
C1_Witness ==
    /\ Selected
    /\ TabPositions(arg) = {}
    /\ ArrayNamed(arg, "E") /\ ArrayNamed(arg, "sigma")
    /\ Len(ValueNamed(arg, "E").data) # Len(ValueNamed(arg, "sigma").data)
    /\ ret.val.x_data = PyNone /\ ret.val.y_data = PyNone

\* C2 as stated: with a tabulated pair in the section, the selector returns the
\* x and y arrays of the first one in iteration order
C2_Original ==
    (Selected /\ TabPositions(arg) # {}) =>
        /\ ret.val.x_data = LeadingTab(arg)[2].x
        /\ ret.val.y_data = LeadingTab(arg)[2].y

\* C2 amended: with a tabulated pair in the section, the selector looks at the
\* first one in iteration order only, whatever named arrays are present: it
\* returns its x and y arrays when they have equal length, and None for both
\* when they do not.
C2_LeadingTabDecides ==
    (Selected /\ TabPositions(arg) # {}) =>
        LET tab == LeadingTab(arg)[2]
        IN  IF Len(tab.x.data) = Len(tab.y.data)
            THEN ret.val.x_data = tab.x /\ ret.val.y_data = tab.y
            ELSE ret.val.x_data = PyNone /\ ret.val.y_data = PyNone

\* C2 witness: an array named E comes first, a tabulated pair second, and the
\* selector has returned the pair's arrays, which differ from E
C2_Witness ==
    /\ Selected
    /\ Len(arg) = 2
    /\ arg[1][1] = "E" /\ arg[1][2].kind = "array"
    /\ arg[2][2].kind = "tab"
    /\ arg[2][2].x # arg[1][2]
    /\ ret.val.x_data = arg[2][2].x /\ ret.val.y_data = arg[2][2].y

\* C3: without a tabulated pair, the independent array is the first of E,
\* energy, x that is present and an array, the dependent array the first of
\* sigma, data, y that is present and an array, each found without regard to
\* the other; they are returned unless both are found with unequal lengths.
C3_NamedArraysByPriority ==
    (Selected /\ TabPositions(arg) = {}) =>
        LET ex == ValueNamed(arg, NamedXKey(arg))
            ey == ValueNamed(arg, NamedYKey(arg))
        IN  IF ex # PyNone /\ ey # PyNone /\ Len(ex.data) # Len(ey.data)
            THEN ret.val.x_data = PyNone /\ ret.val.y_data = PyNone
            ELSE ret.val.x_data = ex /\ ret.val.y_data = ey

\* C3 witness: E is present but a scalar, energy is an array, and the selector
\* has returned energy as the independent array
C3_Witness ==
    /\ Selected
    /\ \E i, j \in 1 .. Len(arg) :
           /\ arg[i][1] = "E" /\ arg[i][2].kind = "scalar"
           /\ arg[j][1] = "energy" /\ arg[j][2].kind = "array"
           /\ ret.val.x_data = arg[j][2]
    /\ ret.val.y_data = PyNone

\* C10: the labels are 'X values' and '{k} values' for a tabulated pair named
\* k; for named arrays 'Energy (eV)' for E and energy, 'X values' for x,
\* 'Cross Section (barns)' for sigma and 'Y values' for data and y.
C10_AxisLabels ==
    Selected =>
        IF TabPositions(arg) # {}
        THEN /\ ret.val.xlabel = "X values"
             /\ ret.val.ylabel = LeadingTab(arg)[1] \o " values"
        ELSE /\ NamedXKey(arg) \in {"E", "energy"} => ret.val.xlabel = "Energy (eV)"
             /\ NamedXKey(arg) = "x" => ret.val.xlabel = "X values"
             /\ NamedYKey(arg) = "sigma" => ret.val.ylabel = "Cross Section (barns)"
             /\ NamedYKey(arg) \in {"data", "y"} => ret.val.ylabel = "Y values"

\* C10 witness: arrays named energy and data, labelled 'Energy (eV)' and 'Y values'
C10_Witness ==
    /\ Selected
    /\ TabPositions(arg) = {}
    /\ NamedXKey(arg) = "energy" /\ NamedYKey(arg) = "data"
    /\ ret.val.xlabel = "Energy (eV)" /\ ret.val.ylabel = "Y values"

(***************************************************************************)
(* Properties of the lookups and resolvers, checked under SpecDescribe.    *)
(***************************************************************************)

\* C4: for (mf, mt) other than (1, 451) a resolver returns the MF label,
\* ' - ' and the MT label, each looked up in its own table with its own fallback.
C4_GenericComposition ==
    (arg.mf # 1 \/ arg.mt # 451) =>
        /\ ret.fn = "EndfLoader._get_section_description" =>
               ret.val = EndfLoader_get_mf_description(arg.mf) \o " - "
                         \o EndfLoader_get_mt_description(arg.mt)
        /\ ret.fn = "EndfViewer._get_section_description" =>
               ret.val = EndfViewer_get_mf_description(arg.mf) \o " - "
                         \o EndfViewer_get_mt_description(arg.mt)

\* C4 witness: (1, 5), which shares its MF with the special case, resolved by
\* the loader to the composition of a table label and a table label
C4_Witness ==
    /\ ret.fn = "EndfLoader._get_section_description"
    /\ arg.mf = 1 /\ arg.mt = 5
    /\ ret.val = "General Information - Sum of all reactions not given explicitly"

\* C5: for an mf absent from the MF table the label is 'File {mf}', for an mt
\* absent from the MT table it is 'MT={mt}', and a lookup fails for no code.
C5_FallbackLabels ==
    /\ ret.fn = "EndfLoader._get_mf_description" =>
           /\ ret.val # "KeyError"
           /\ arg.mf \notin DOMAIN EndfLoader_mf_descriptions =>
                  ret.val = "File " \o ToString(arg.mf)
    /\ ret.fn = "EndfLoader._get_mt_description" =>
           /\ ret.val # "KeyError"
           /\ arg.mt \notin DOMAIN EndfLoader_mt_descriptions =>
                  ret.val = "MT=" \o ToString(arg.mt)
    /\ ret.fn = "EndfGui._get_mf_description" =>
           /\ ret.val # "KeyError"
           /\ arg.mf \notin DOMAIN EndfGui_mf_descriptions =>
                  ret.val = "File " \o ToString(arg.mf)
    /\ ret.fn = "EndfGui._get_mt_description" =>
           /\ ret.val # "KeyError"
           /\ arg.mt \notin DOMAIN EndfGui_mt_descriptions =>
                  ret.val = "MT=" \o ToString(arg.mt)

\* C5 witness: the loader's label of the unmapped MF 11
C5_Witness ==
    /\ ret.fn = "EndfLoader._get_mf_description"
    /\ arg.mf = 11
    /\ ret.val = "File 11"

\* C6: for (1, 451) a resolver returns a fixed literal, which is not the
\* composition 'General Information - File information and dictionary'.
C6_SpecialCaseLiteral ==
    (arg.mf = 1 /\ arg.mt = 451) =>
        /\ ret.fn = "EndfLoader._get_section_description" =>
               /\ ret.val = "General information"
               /\ ret.val # EndfLoader_get_mf_description(1) \o " - "
                            \o EndfLoader_get_mt_description(451)
               /\ ret.val # "General Information - File information and dictionary"
        /\ ret.fn = "EndfViewer._get_section_description" =>
               /\ ret.val = "General information and section directory"
               /\ ret.val # EndfViewer_get_mf_description(1) \o " - "
                            \o EndfViewer_get_mt_description(451)
               /\ ret.val # "General Information - File information and dictionary"

\* C6 witness: the loader's resolver applied to (1, 451)
C6_Witness ==
    /\ ret.fn = "EndfLoader._get_section_description"
    /\ arg.mf = 1 /\ arg.mt = 451
    /\ ret.val = "General information"

(***************************************************************************)
(* Properties of the plot handler, checked under SpecPlot.                 *)
(***************************************************************************)

\* _plot_section has just run
AfterPlot == calls # <<>> /\ calls[1] = "_plot_section"

\* the code before the first ':' of the entry a combo shows
CodeShown(combo) == PyInt(SplitHead(combo.text))
SelectedKey == <<CodeShown(mf_combo), CodeShown(mt_combo)>>
SelectedSection == material.section_data[SelectedKey]

\* _plot_section has just run on the selected section (the section exists)
PlottedSelected ==
    /\ AfterPlot
    /\ material # PyNone
    /\ SelectedKey \in DOMAIN material.section_data

\* the dump on display lists array field k of section s with its size
ListsArray(s, k) ==
    \E i \in 1 .. Len(container.body.arrays) :
        container.body.arrays[i] = <<k, Len(ValueNamed(s, k).data)>>

\* plot_cross_section cannot draw s: no pair to plot, or a pair of unequal lengths
NoCrossSectionChart(s) ==
    LET sigma == ValueNamed(s, "sigma")
    IN  \/ sigma.kind = "tab" /\ Len(sigma.x.data) # Len(sigma.y.data)
        \/ sigma.kind = "scalar"
        \/ sigma.kind = "array" /\ "E" \notin KeysOf(s)
        \/ sigma.kind = "array" /\ ArrayNamed(s, "E")
              /\ Len(ValueNamed(s, "E").data) # Len(sigma.data)

\* C7: with compare mode off, on an MF=3 section with a 'sigma' field a chart
\* render is attempted; it ends in the chart or, when the render fails for
\* whatever reason, in the textual dump with every array listed with its
\* size, and never in an error dialog.
C7_CrossSectionChartOrText ==
    (PlottedSelected /\ ~compare_var /\ SelectedKey[1] = 3
        /\ "sigma" \in KeysOf(SelectedSection)) =>
        LET s == SelectedSection
        IN  /\ \E i \in 1 .. Len(calls) : calls[i] = "_display_plot"
            /\ dialogs = <<>>
            /\ container.widget \in {"canvas", "text"}
            /\ NoCrossSectionChart(s) => container.widget = "text"
            /\ container.widget = "text" =>
                   /\ current_display_type = "text"
                   /\ \A k \in KeysOf(s) : ArrayNamed(s, k) => ListsArray(s, k)
            /\ container.widget = "canvas" =>
                   /\ current_display_type = "plot"
                   /\ ~NoCrossSectionChart(s)

\* C7 witness: a (3, 102) section with arrays E and sigma of unequal lengths
\* and no tabulated pair, shown as text with both arrays listed
C7_Witness ==
    /\ PlottedSelected /\ ~compare_var
    /\ SelectedKey = <<3, 102>>
    /\ TabPositions(SelectedSection) = {}
    /\ ArrayNamed(SelectedSection, "E") /\ ArrayNamed(SelectedSection, "sigma")
    /\ Len(ValueNamed(SelectedSection, "E").data)
         # Len(ValueNamed(SelectedSection, "sigma").data)
    /\ container.widget = "text"
    /\ ListsArray(SelectedSection, "E") /\ ListsArray(SelectedSection, "sigma")

\* the chart on display is built from what the selector returns for s
ChartOfSelector(s) ==
    LET found == EndfGui_find_plottable_data(s)
    IN  /\ container.widget = "canvas"
        /\ container.fig.kind = "xy"
        /\ container.fig.x_data = found.x_data
        /\ container.fig.y_data = found.y_data
        /\ container.fig.xlabel = found.xlabel
        /\ container.fig.ylabel = found.ylabel

SelectorFinds(s) ==
    LET found == EndfGui_find_plottable_data(s)
    IN  found.x_data # PyNone /\ found.y_data # PyNone

\* C8 as stated: with compare mode off, on a section that takes neither the
\* MF=1 branch nor the MF=3-with-sigma branch, the chart of the selector's
\* output is shown when the selector finds a pair, the dump when it does not,
\* and no error is reported
C8_Original ==
    (PlottedSelected /\ ~compare_var /\ SelectedKey[1] # 1
        /\ ~(SelectedKey[1] = 3 /\ "sigma" \in KeysOf(SelectedSection))) =>
        /\ dialogs = <<>>
        /\ IF SelectorFinds(SelectedSection)
           THEN ChartOfSelector(SelectedSection)
           ELSE container.widget = "text"

\* C8 amended: with compare mode off, on a section with MF other than 1 that
\* has no 'sigma' field, the chart of the selector's output is shown when the
\* selector finds a pair, the dump when it does not, and no error is reported.
\* (A section with a 'sigma' field is charted by plot_cross_section instead.)
C8_SelectorChartOrText ==
    (PlottedSelected /\ ~compare_var /\ SelectedKey[1] # 1
        /\ "sigma" \notin KeysOf(SelectedSection)) =>
        /\ dialogs = <<>>
        /\ IF SelectorFinds(SelectedSection)
           THEN ChartOfSelector(SelectedSection) /\ current_display_type = "plot"
           ELSE /\ container.widget = "text"
                /\ current_display_type = "text"
                /\ container.body = EndfGui_format_section_data(SelectedSection)

\* C8 witness: a section without 'sigma' and with MF other than 1 in which the
\* selector finds nothing, shown as text without any dialog
C8_Witness ==
    /\ PlottedSelected /\ ~compare_var
    /\ SelectedKey[1] = 23
    /\ "sigma" \notin KeysOf(SelectedSection)
    /\ ArrayNamed(SelectedSection, "E")
    /\ ~SelectorFinds(SelectedSection)
    /\ container.widget = "text"
    /\ dialogs = <<>>

Formatted == ret.fn = "EndfGui._format_section_data"

\* the lines of the dump that show a field: two blanks, the key, a colon
IsFieldLine(line) ==
    Len(line) > 3 /\ SubSeq(line, 1, 2) = "  " /\ SubSeq(line, 3, 3) # " "

\* the lines of the dump that begin with prefix
LinesWith(prefix) ==
    {j \in 1 .. Len(ret.val.lines) :
        /\ Len(ret.val.lines[j]) >= Len(prefix)
        /\ SubSeq(ret.val.lines[j], 1, Len(prefix)) = prefix}

\* what the dump shows after the key of field k
ShownFor(k) ==
    LET prefix == "  " \o k \o ": "
        line == ret.val.lines[CHOOSE j \in LinesWith(prefix) : TRUE]
    IN  SubSeq(line, Len(prefix) + 1, Len(line))

\* the positions of character c in text t
PositionsOf(c, t) == {i \in 1 .. Len(t) : SubSeq(t, i, i) = c}

\* t is in scientific notation: a mantissa with 6 decimal digits and an exponent
IsScientificText(t) ==
    /\ PositionsOf("e", t) = {Len(t) - 3}
    /\ PositionsOf(".", t) = {Len(t) - 10}

\* t is in fixed-point notation with 6 decimal digits
IsFixedPointText(t) ==
    /\ PositionsOf("e", t) = {}
    /\ PositionsOf(".", t) = {Len(t) - 6}

\* the magnitude of float v is below 0.001: m * 10^(e+3) < 1 (m has at most 9 digits)
MagnitudeBelowMilli(v) ==
    IF v.e + 3 >= 0 THEN v.m = 0
    ELSE IF 0 - v.e - 3 > 9 THEN TRUE
    ELSE v.m < Pow10(0 - v.e - 3)

\* the magnitude of float v is above 1000: m > 10^(3-e)
MagnitudeAboveKilo(v) ==
    IF v.e > 3 THEN v.m >= 1
    ELSE IF 3 - v.e > 9 THEN FALSE
    ELSE v.m > Pow10(3 - v.e)

\* C11: in the dump a float scalar is in scientific notation exactly when its
\* magnitude is below 0.001 or above 1000 and in fixed-point notation with 6
\* decimal digits otherwise; 0.001 and 1000 themselves are fixed-point
\* (0.00005 and 5000.0 are scientific, 12.3456789 is shown as 12.345679).
C11_FloatNotation ==
    Formatted =>
        \A i \in 1 .. Len(arg) :
            IsFloat(arg[i][2]) =>
                LET v == arg[i][2]
                    t == ShownFor(arg[i][1])
                IN  /\ Cardinality(LinesWith("  " \o arg[i][1] \o ": ")) = 1
                    /\ IF MagnitudeBelowMilli(v) \/ MagnitudeAboveKilo(v)
                       THEN IsScientificText(t) /\ ~IsFixedPointText(t)
                       ELSE IsFixedPointText(t) /\ ~IsScientificText(t)
                    /\ v = FloatOf(FALSE, 1, -3) => t = "0.001000"
                    /\ v = FloatOf(FALSE, 1, 3) => t = "1000.000000"
                    /\ v = FloatOf(FALSE, 5, -5) => t = "5.000000e-05"
                    /\ v = FloatOf(FALSE, 123456789, -7) => t = "12.345679"
                    /\ v = FloatOf(FALSE, 5, 3) => t = "5.000000e+03"

\* C11 witness: the floats 1000.0 and 1000.5 in one section, the first shown
\* in fixed-point and the second in scientific notation
C11_Witness ==
    /\ Formatted
    /\ Len(arg) = 2
    /\ arg[1] = <<"E", FloatOf(FALSE, 1, 3)>>
    /\ arg[2] = <<"AWR", FloatOf(FALSE, 10005, -1)>>
    /\ ShownFor("E") = "1000.000000"
    /\ ShownFor("AWR") = "1.000500e+03"

\* the texts of the elements of an int list, joined by ", "
RECURSIVE JoinedInts(_)
JoinedInts(data) ==
    IF Len(data) = 0 THEN ""
    ELSE IF Len(data) = 1 THEN ToString(data[1])
    ELSE JoinedInts(SubSeq(data, 1, Len(data) - 1)) \o ", " \o ToString(data[Len(data)])

\* the line after the one that shows field k, "" if it is the last
LineAfter(k) ==
    LET j == CHOOSE q \in LinesWith("  " \o k \o ": ") : TRUE
    IN  IF j < Len(ret.val.lines) THEN ret.val.lines[j + 1] ELSE ""

IsSampleLine(line) == Len(line) >= 12 /\ SubSeq(line, 1, 12) = "    Sample: "

\* C12: the dump shows the size of an array field of length n and, when
\* n > 0, a sample of the first min(5, n) elements in their order, followed
\* by '(N more)' with N = n - 5 exactly when n > 5; an empty array has no
\* sample line.
C12_ArraySample ==
    Formatted =>
        \A i \in 1 .. Len(arg) :
            arg[i][2].kind = "array" =>
                LET k == arg[i][1]
                    value == arg[i][2]
                    n == Len(value.data)
                    leading == SubSeq(value.data, 1, IF n < 5 THEN n ELSE 5)
                IN  /\ Cardinality(LinesWith("  " \o k \o ": ")) = 1
                    /\ ShownFor(k) \in {"length=" \o ToString(n),
                                        "shape=(" \o ToString(n) \o ",)"}
                    /\ n = 0 => ~IsSampleLine(LineAfter(k))
                    /\ n > 0 => IsSampleLine(LineAfter(k))
                    /\ (n > 0 /\ ~HasFloatElements(value)) =>
                           LineAfter(k) =
                               "    Sample: [" \o JoinedInts(leading)
                               \o (IF n > 5
                                   THEN ", ... (" \o ToString(n - 5) \o " more)"
                                   ELSE "")
                               \o "]"
                    /\ (n > 0 /\ n <= 5) => PositionsOf("m", LineAfter(k)) = {7}
                    /\ value = NdArrayOf(<<FloatOf(FALSE, 5, -1), FloatOf(FALSE, 25, 2)>>)
                           => LineAfter(k) = "    Sample: [5.000000e-01, 2.500000e+03]"

\* C12 witness: a list of 6 elements, shown with its length, its first 5
\* elements and '(1 more)'
C12_Witness ==
    /\ Formatted
    /\ Len(arg) = 1
    /\ arg[1] = <<"E", ArrayOfLen(6)>>
    /\ ret.val.lines = <<"", "Array Data:", "  E: length=6",
                         "    Sample: [1, 2, 3, 4, 5, ... (1 more)]">>

\* the keys of the field lines of the dump, in the order of the lines
ShownKeys ==
    LET field_lines == SelectSeq(ret.val.lines, IsFieldLine)
    IN  [j \in 1 .. Len(field_lines) |->
            SubSeq(field_lines[j], 3,
                   (CHOOSE c \in PositionsOf(":", field_lines[j]) :
                        \A d \in PositionsOf(":", field_lines[j]) : c <= d) - 1)]

\* the bucket of a value: 1 scalar, 2 array-like, 3 other
BucketOf(value) ==
    IF value.kind = "scalar" THEN 1 ELSE IF value.kind = "array" THEN 2 ELSE 3

\* the header that precedes the fields of a bucket
BucketHeader(b) ==
    IF b = 1 THEN "Scalar Values:" ELSE IF b = 2 THEN "Array Data:" ELSE "Complex Objects:"

\* C13: the formatter puts every field of a non-empty section in exactly one
\* of the buckets scalar, array-like and other, and renders the buckets in
\* that order with the keys of each in ascending lexicographic order, so
\* that every field is rendered exactly once.
C13_BucketsInOrder ==
    (Formatted /\ Len(arg) > 0) =>
        LET body == ret.val
            in_scalars == {body.scalars[j] : j \in 1 .. Len(body.scalars)}
            in_arrays == {body.arrays[j][1] : j \in 1 .. Len(body.arrays)}
            in_objects == {body.objects[j][1] : j \in 1 .. Len(body.objects)}
        IN  /\ in_scalars = {k \in KeysOf(arg) : BucketOf(ValueNamed(arg, k)) = 1}
            /\ in_arrays = {k \in KeysOf(arg) : BucketOf(ValueNamed(arg, k)) = 2}
            /\ in_objects = {k \in KeysOf(arg) : BucketOf(ValueNamed(arg, k)) = 3}
            /\ Len(ShownKeys) = Len(arg)
            /\ {ShownKeys[j] : j \in 1 .. Len(ShownKeys)} = KeysOf(arg)
            /\ \A j \in 1 .. Len(ShownKeys) - 1 :
                   LET b1 == BucketOf(ValueNamed(arg, ShownKeys[j]))
                       b2 == BucketOf(ValueNamed(arg, ShownKeys[j + 1]))
                   IN  \/ b1 < b2
                       \/ b1 = b2 /\ StrLess(ShownKeys[j], ShownKeys[j + 1])
            /\ \A b \in 1 .. 3 :
                   Cardinality(LinesWith(BucketHeader(b)))
                       = IF \E k \in KeysOf(arg) : BucketOf(ValueNamed(arg, k)) = b
                         THEN 1 ELSE 0

\* C13 witness: a section given as a tabulated pair, a list and a scalar is
\* dumped as the scalar, the list and the pair
C13_Witness ==
    /\ Formatted
    /\ Len(arg) = 3
    /\ arg[1][2].kind = "tab" /\ arg[2][2].kind = "array" /\ arg[3][2].kind = "scalar"
    /\ arg[1][1] = "AWR" /\ arg[2][1] = "E" /\ arg[3][1] = "sigma"
    /\ ShownKeys = <<"sigma", "E", "AWR">>

(***************************************************************************)
(* Properties of the loader, checked under SpecLoader and SpecEvaluate.    *)
(***************************************************************************)

\* load_file has been applied to the path arg
Loaded == ret.fn = "EndfLoader.load_file"

\* C14: load_file on a path that does not exist raises a not-found error
\* without invoking the parser and without wrapping; on a path whose parse
\* fails it raises the wrapped error, which carries the parser's message; on
\* a path whose parse succeeds it returns the parsed Material.
C14_LoadFileOutcomes ==
    Loaded =>
        /\ disk[arg] = Missing =>
               /\ ret.exc = "FileNotFoundError"
               /\ ~ret.parsed
               /\ ret.msg = "File 'data/" \o arg \o "' not found."
        /\ disk[arg].kind = "unparsable" =>
               /\ ret.exc = "Exception"
               /\ ret.parsed
               /\ ret.msg = "Error parsing ENDF file: " \o disk[arg].msg
        /\ disk[arg].kind = "material" =>
               /\ ret.exc = "none"
               /\ ret.val = disk[arg]

\* C14 witness: a path that does not exist, refused with the not-found error
C14_Witness ==
    /\ Loaded
    /\ arg = "a.endf"
    /\ disk[arg] = Missing
    /\ ret.exc = "FileNotFoundError"

\* list_files has been applied
Listed == ret.fn = "EndfLoader.list_files"

\* the name ends in .endf
HasEndfExtension(name) ==
    \E stem \in 1 .. Len(name) : SubSeq(name, stem + 1, Len(name)) = ".endf"

\* C20: list_files returns the entries of the data directory whose names end
\* in .endf, each exactly once, in ascending lexicographic order.
C20_ListFilesSorted ==
    Listed =>
        /\ {ret.val[i] : i \in 1 .. Len(ret.val)}
               = {name \in DirNames : disk[name] # Missing /\ HasEndfExtension(name)}
        /\ \A i, j \in 1 .. Len(ret.val) : ret.val[i] = ret.val[j] => i = j
        /\ \A i \in 1 .. Len(ret.val) - 1 : StrLess(ret.val[i], ret.val[i + 1])

\* C20 witness: a directory that holds all four names lists B.endf, a.endf
C20_Witness ==
    /\ Listed
    /\ \A name \in DirNames : disk[name] # Missing
    /\ ret.val = <<"B.endf", "a.endf">>

\* get_evaluation_info has been applied to the material arg
Evaluated == ret.fn = "EndfLoader.get_evaluation_info"

\* C15: the sections list of get_evaluation_info has exactly one entry for
\* each section key of the material, in ascending (mf, mt) order, with the
\* loader resolver's description of the key.
C15_SectionsList ==
    (Evaluated /\ ret.exc = "none") =>
        LET sections == ret.val["sections"]
        IN  /\ Len(sections) = Cardinality(DOMAIN arg.section_data)
            /\ {<<sections[i].mf, sections[i].mt>> : i \in 1 .. Len(sections)}
                   = DOMAIN arg.section_data
            /\ \A i \in 1 .. Len(sections) - 1 :
                   \/ sections[i].mf < sections[i + 1].mf
                   \/ /\ sections[i].mf = sections[i + 1].mf
                      /\ sections[i].mt < sections[i + 1].mt
            /\ \A i \in 1 .. Len(sections) :
                   /\ DOMAIN sections[i] = {"mf", "mt", "description"}
                   /\ sections[i].description
                          = EndfLoader_get_section_description(sections[i].mf,
                                                               sections[i].mt)

\* C15 witness: a material with all five keys, (10, 5) listed last
C15_Witness ==
    /\ Evaluated
    /\ DOMAIN arg.section_data = EvalKeys
    /\ Len(ret.val["sections"]) = 5
    /\ ret.val["sections"][1].description = "General information"
    /\ ret.val["sections"][3] =
           [mf |-> 3, mt |-> 1, description |-> "Cross Sections - Total cross section"]
    /\ ret.val["sections"][5].mf = 10

\* the material's scalar fields are MAT = 125 and AWR = 0.99917: MAT is an
\* attribute of the material, AWR an attribute or a field of the (1, 451)
\* section, and no field gives either another value
ScenarioMaterial ==
    /\ DOMAIN arg.section_data = {<<1, 451>>}
    /\ "MAT" \in DOMAIN arg.attrs /\ arg.attrs["MAT"] = IntOf(125)
    /\ \/ "AWR" \in DOMAIN arg.attrs
       \/ "AWR" \in KeysOf(arg.section_data[<<1, 451>>])
    /\ "AWR" \in KeysOf(arg.section_data[<<1, 451>>])
           => ValueNamed(arg.section_data[<<1, 451>>], "AWR") = FloatOf(FALSE, 99917, -5)

\* C16: for a material whose only section is (1, 451) and whose scalar fields
\* are MAT = 125 and AWR = 0.99917, the summary has MAT = 125 and
\* AWR = 0.99917 and its sections list is one entry: mf 1, mt 451 and the
\* description of the special case.
C16_HeaderOnlyScenario ==
    (Evaluated /\ ScenarioMaterial) =>
        /\ ret.exc = "none"
        /\ {"MAT", "AWR", "sections"} \subseteq DOMAIN ret.val
        /\ ret.val["MAT"] = IntOf(125)
        /\ ret.val["AWR"] = FloatOf(FALSE, 99917, -5)
        /\ ret.val["sections"]
               = <<[mf |-> 1, mt |-> 451, description |-> "General information"]>>

\* C16 witness: the scenario with MAT an attribute and AWR a header field
C16_Witness ==
    /\ Evaluated
    /\ ScenarioMaterial
    /\ DOMAIN arg.attrs = {"MAT"}
    /\ arg.section_data[<<1, 451>>] = << <<"AWR", FloatOf(FALSE, 99917, -5)>> >>
    /\ ret.val["AWR"] = FloatOf(FALSE, 99917, -5)

\* C17: when interpret() fails, get_evaluation_info returns normally: the
\* basic fields and the complete sections list are there, the interpreted
\* type and the reactions are not, and nothing is raised.
C17_InterpretFailureIsNotFatal ==
    (Evaluated /\ arg.interpret.exc # "none") =>
        /\ ret.exc = "none"
        /\ "interpreted_type" \notin DOMAIN ret.val
        /\ "reactions" \notin DOMAIN ret.val
        /\ \A name \in DOMAIN arg.attrs : name \in DOMAIN ret.val
        /\ Len(ret.val["sections"]) = Cardinality(DOMAIN arg.section_data)
        /\ {<<ret.val["sections"][i].mf, ret.val["sections"][i].mt>> :
                i \in 1 .. Len(ret.val["sections"])} = DOMAIN arg.section_data

\* C17 witness: interpret() raises NotImplementedError on a material with
\* two sections and the attribute MAT, and the summary has both and MAT
C17_Witness ==
    /\ Evaluated
    /\ arg.interpret.exc = "NotImplementedError"
    /\ DOMAIN arg.section_data = {<<1, 451>>, <<3, 1>>}
    /\ DOMAIN arg.attrs = {"MAT"}
    /\ ret.exc = "none"
    /\ Len(ret.val["sections"]) = 2
    /\ ret.val["MAT"] = IntOf(125)

(***************************************************************************)
(* Properties of the comparison and of the error reports, checked under    *)
(* SpecPlot.                                                               *)
(***************************************************************************)

\* _plot_section has just run _plot_comparison on the loaded material
Compared ==
    /\ Len(calls) = 2
    /\ calls[1] = "_plot_section" /\ calls[2] = "_plot_comparison"

\* <<mt>> if present holds, the empty list if not
IfPresent(present, mt) == IF present THEN <<mt>> ELSE <<>>

\* the material has a section numbered mt in some file / in file 3
HasMt(mt) == \E k \in DOMAIN material.section_data : k[2] = mt
HasCrossSection(mt) == <<3, mt>> \in DOMAIN material.section_data

IsErrorStatus(status) == Len(status) >= 5 /\ SubSeq(status, 1, 5) = "Error"

\* C18 as stated: every failure a handler shows to the user comes with a
\* status-line update, so while an error message is up the status line
\* reports the failure.
C18_Original ==
    dialogs # <<>> => IsErrorStatus(status_var)

\* the state that refutes it: the message 'Section ... not found' is up and
\* the status line still tells of the comparison plotted before
C18_SectionNotFoundLeavesStatus ==
    /\ calls = <<"_plot_section">>
    /\ dialogs = <<"Section (MF=3, MT=2) not found">>
    /\ status_var = "Plotted comparison of common cross sections"

(***************************************************************************)
(* viewer.py, EndfViewer._display_cross_section.  What it prints is held   *)
(* as the two numbers of the line "showing {points} of {len(E)} points",   *)
(* the indices it chose (from 0, as in Python) and the row printed for     *)
(* each.                                                                   *)
(***************************************************************************)

Min(a, b) == IF a < b THEN a ELSE b
Max(a, b) == IF a > b THEN a ELSE b

\* list(range(start, stop, step)), step > 0
PyRange(start, stop, step) ==
    LET count == IF stop <= start THEN 0 ELSE (stop - start + step - 1) \div step
    IN  [k \in 1 .. count |-> start + (k - 1) * step]

\* s[:m], m >= 0
PySlice(s, m) == SubSeq(s, 1, Min(m, Len(s)))

\* a mutant of MiddleStep: the quotient rounded up
MiddleStep_rounded_up(n, middle_count) ==
    Max(1, (n - 2 + middle_count - 1) \div middle_count)

\* step = max(1, (len(E) - 2) // middle_count)
MiddleStep(n, middle_count) == Max(1, (n - 2) \div middle_count)

\* "Determine which points to show (first, middle, and last)"
SampleIndices(n, points) ==
    IF points >= 3
    THEN LET middle_count == points - 2
         IN  <<0>>
             \o (IF middle_count > 0
                 THEN PySlice(PyRange(1, n - 1, MiddleStep(n, middle_count)), middle_count)
                 ELSE <<>>)
             \o <<n - 1>>
    ELSE PyRange(0, Min(points, n), 1)

EndfViewer_display_cross_section(section) ==
    IF ~({"E", "sigma"} \subseteq KeysOf(section))
    THEN [found |-> FALSE, head |-> <<"Cross section data not found in section.">>]
    ELSE LET E == Item(section, "E")
             sigma == Item(section, "sigma")
             points == Min(10, PyLen(E))
             indices == SampleIndices(PyLen(E), points)
         IN  [found |-> TRUE,
              head |-> (IF "QM" \in KeysOf(section) THEN <<"Q-value">> ELSE <<>>)
                       \o (IF "threshold_idx" \in KeysOf(section)
                              /\ Item(section, "threshold_idx").val < PyLen(E)
                           THEN <<"Threshold Energy">> ELSE <<>>),
              points |-> points,
              total |-> PyLen(E),
              indices |-> indices,
              rows |-> [k \in 1 .. Len(indices) |->
                           <<E.data[indices[k] + 1], sigma.data[indices[k] + 1]>>]]

(***************************************************************************)
(* SpecViewer: _display_cross_section applied to a section.                *)
(***************************************************************************)

\* the longest 'E' and 'sigma' arrays tried
MaxPoints == 60

InitViewer ==
    /\ \E n \in 0 .. MaxPoints, with \in SUBSET {"sigma", "QM", "threshold_idx"} :
           arg = (IF "QM" \in with THEN << <<"QM", [kind |-> "scalar"]>> >> ELSE <<>>)
                 \o << <<"E", ArrayOfLen(n)>> >>
                 \o (IF "sigma" \in with THEN << <<"sigma", ArrayOfLen(n)>> >> ELSE <<>>)
                 \o (IF "threshold_idx" \in with
                     THEN << <<"threshold_idx", IntOf(n \div 2)>> >> ELSE <<>>)
    /\ ret = NotCalled
    /\ NoGui

CallDisplayCrossSection ==
    /\ ret' = [fn |-> "EndfViewer._display_cross_section",
               val |-> EndfViewer_display_cross_section(arg)]
    /\ UNCHANGED <<arg, gui>>

NextViewer == CallDisplayCrossSection

SpecViewer == InitViewer /\ [][NextViewer]_vars

(***************************************************************************)
(* C21..C26                                                                *)
(***************************************************************************)

\* the display widget subtrees the display area holds
WidgetSubtrees == IF container.widget = "none" THEN 0 ELSE 1

\* C21 as stated: after any sequence of plot actions the display area holds
\* at most one display widget subtree and at most one chart figure is open.
C21_Original ==
    AfterPlot => WidgetSubtrees <= 1 /\ figures.open <= 1

\* the state that refutes it: (3, 102) with an 'E' array of one point and an
\* empty 'sigma' array is shown as text after its chart failed to draw, for
\* the second time, and the figures of both failed draws are still open
C21_FiguresLeftOpen ==
    /\ calls = <<"_plot_section", "_clear_display_area", "_display_plot", "_display_text_data">>
    /\ SelectedKey = <<3, 102>>
    /\ SelectedSection = << <<"E", ArrayOfLen(1)>>, <<"sigma", ArrayOfLen(0)>> >>
    /\ container.widget = "text"
    /\ figures = [fig |-> "closed", open |-> 2]

\* C22 as stated: handlers run to completion one at a time, so while a
\* handler has not returned no other handler has started: at most one
\* handler is in progress, and the routines last entered are its own.
C22_Original ==
    frames # <<>> =>
        /\ Len(frames) = 1
        /\ calls # <<>> => calls[1] = frames[1].handler

\* a state that refutes it: a file selection dispatched by the root.update()
\* of a _plot_section replaced the material, and the _plot_section went on
\* to chart the section (3, 102) it had read, which the material held does
\* not have
C22_ChartOfReplacedMaterial ==
    /\ frames = <<>>
    /\ calls = <<"_plot_section", "_clear_display_area", "_display_plot">>
    /\ container.widget = "canvas"
    /\ status_var = "Plotted cross section (MF=3, MT=102)"
    /\ <<3, 102>> \notin DOMAIN material.section_data

\* another: a _plot_section dispatched by the root.update() of the
\* _reset_display_area of another left its chart in the container, and the
\* outer one packed a second chart over it: two canvases, two open figures
C22_TwoCharts ==
    /\ frames = <<>>
    /\ container.widget = "canvas"
    /\ "below" \in DOMAIN container
    /\ container.below.widget = "canvas"
    /\ figures = [fig |-> "open", open |-> 2]

\* the step is _on_file_select on file f
FileSelected(f) ==
    /\ calls' = <<"_on_file_select">>
    /\ status_var' \in {"Loaded " \o f, "Error loading " \o f}

\* C23: one Material is held; a file selection whose file parses replaces it
\* wholesale with the newly parsed one, and a file selection whose load
\* fails (file missing or parse failure) leaves the held Material and the
\* MF and MT selectors as they were.
C23_ReplacedOrKept ==
    [][\A f \in DOMAIN disk :
           FileSelected(f) =>
               IF disk[f].kind = "material"
               THEN material' = disk[f]
               ELSE /\ material' = material
                    /\ mf_combo' = mf_combo
                    /\ mt_combo' = mt_combo]_vars

\* C23 witness: a.endf is loaded and MF 3 picked, then b.endf fails to load;
\* a.endf's material and the selection are still there
C23_Witness ==
    /\ calls = <<"_on_file_select">>
    /\ status_var = "Error loading b.endf"
    /\ disk["b.endf"].kind # "material"
    /\ material = disk["a.endf"]
    /\ mf_combo.text = "3: Cross Sections"
    /\ mt_combo.text = "102: Radiative capture (n,gamma)"

\* C24 as stated: whenever the plot button is enabled a Material is loaded
\* and the (MF, MT) pair read back from the two selectors is a key of its
\* sections.
C24_Original ==
    plot_button = "normal" =>
        /\ material # PyNone
        /\ SelectedKey \in DOMAIN material.section_data

\* the state that refutes it: a.endf was loaded, then b.endf, which parses to
\* a material without sections; the button is still enabled and the
\* selectors still show a.endf's (3, 102)
C24_StaleSelection ==
    /\ calls = <<"_on_file_select">>
    /\ status_var = "Error loading b.endf"
    /\ dialogs = <<"Error loading file: Index 0 out of range">>
    /\ plot_button = "normal"
    /\ material = EmptyMaterial
    /\ SelectedKey = <<3, 102>>

\* the copies of the two label functions and of the resolver
MfLabelFunctions ==
    {"EndfLoader._get_mf_description", "EndfViewer._get_mf_description",
     "EndfGui._get_mf_description"}
MtLabelFunctions ==
    {"EndfLoader._get_mt_description", "EndfViewer._get_mt_description",
     "EndfGui._get_mt_description", "EndfPlotter._get_mt_description"}
SectionResolvers ==
    {"EndfLoader._get_section_description", "EndfViewer._get_section_description"}

\* C25: for every integer code the MF-label functions of the loader, the
\* viewer and the GUI return the same string, the MT-label functions of the
\* loader, the viewer, the GUI and the plotter return the same string, and
\* the two section-description resolvers return the same string for every
\* (mf, mt) other than (1, 451).
C25_LookupsInterchangeable ==
    /\ ret.fn \in MfLabelFunctions =>
           /\ ret.val = EndfLoader_get_mf_description(arg.mf)
           /\ ret.val = EndfViewer_get_mf_description(arg.mf)
           /\ ret.val = EndfGui_get_mf_description(arg.mf)
    /\ ret.fn \in MtLabelFunctions =>
           /\ ret.val = EndfLoader_get_mt_description(arg.mt)
           /\ ret.val = EndfViewer_get_mt_description(arg.mt)
           /\ ret.val = EndfGui_get_mt_description(arg.mt)
           /\ ret.val = EndfPlotter_get_mt_description(arg.mt)
    /\ (ret.fn \in SectionResolvers /\ <<arg.mf, arg.mt>> # <<1, 451>>) =>
           /\ ret.val = EndfLoader_get_section_description(arg.mf, arg.mt)
           /\ ret.val = EndfViewer_get_section_description(arg.mf, arg.mt)

\* C25 witness: the plotter's copy applied to 451, the last entry of the table
C25_Witness ==
    /\ ret.fn = "EndfPlotter._get_mt_description"
    /\ arg.mt = 451
    /\ ret.val = "File information and dictionary"
    /\ ret.val = EndfGui_get_mt_description(arg.mt)

\* _display_cross_section was applied to a section with 'E' and 'sigma'
Displayed == ret.fn = "EndfViewer._display_cross_section" /\ ret.val.found

\* the length n of the section's 'E' and 'sigma' arrays
PointsOf(section) == Len(Item(section, "E").data)

\* C26: for 'E' and 'sigma' arrays of length n, _display_cross_section
\* prints exactly min(10, n) data rows, the number it announces, at strictly
\* increasing in-range indices that include the first and the last point
\* when n >= 3.
C26_RowsAsAnnounced ==
    Displayed =>
        LET n == PointsOf(arg)
            indices == ret.val.indices
        IN  /\ ret.val.total = n
            /\ ret.val.points = Min(10, n)
            /\ Len(ret.val.rows) = ret.val.points
            /\ Len(indices) = Len(ret.val.rows)
            /\ \A k \in 1 .. Len(indices) : indices[k] \in 0 .. n - 1
            /\ \A k \in 1 .. Len(indices) - 1 : indices[k] < indices[k + 1]
            /\ n >= 3 => indices[1] = 0 /\ indices[Len(indices)] = n - 1
            /\ \A k \in 1 .. Len(indices) :
                   ret.val.rows[k] = <<Item(arg, "E").data[indices[k] + 1],
                                      Item(arg, "sigma").data[indices[k] + 1]>>

\* C26 witness: 26 points, step 3: the rows are those of 0, 1, 4, ..., 22, 25
C26_Witness ==
    /\ Displayed
    /\ PointsOf(arg) = 26
    /\ ret.val.points = 10
    /\ ret.val.indices = <<0, 1, 4, 7, 10, 13, 16, 19, 22, 25>>

====
